---- MODULE Spec2Model ----
(***************************************************************************)
(* Model of the tender ingestion pipeline.                                 *)
(*                                                                         *)
(* Ingest worker (src/lambdas/normalizer/index.js): consumes a queue       *)
(* event, fetches the objects it names, normalizes the records, upserts    *)
(* them in batched transactions and publishes the queued notifications.    *)
(*                                                                         *)
(* Values.  A JavaScript string is a sequence of atoms, an atom being one  *)
(* whitespace character or a chunk without whitespace; null and undefined  *)
(* are the value `null`.  A Date is the atom sequence of its ISO form.     *)
(* SHA-256 of a JSON text is modelled as the hashed field tuple itself     *)
(* (an injective hash).                                                    *)
(***************************************************************************)
EXTENDS Integers, Sequences, FiniteSets, Bags, TLC

\* ------------------------------------------------------------------ values

null == <<"null">>
EmptyStr == << >>
WS == {" ", "\t", "\n"}

Truthy(v) == v # null /\ v # EmptyStr
Or(a, b) == IF Truthy(a) THEN a ELSE b
Get(r, f) == IF f \in DOMAIN r THEN r[f] ELSE null

RECURSIVE CollapseWs(_)
CollapseWs(s) ==
  IF s = << >> THEN << >>
  ELSE IF Head(s) \in WS
       THEN IF Len(s) > 1 /\ s[2] \in WS
            THEN CollapseWs(Tail(s))
            ELSE <<" ">> \o CollapseWs(Tail(s))
       ELSE <<Head(s)>> \o CollapseWs(Tail(s))

Trim(s) ==
  LET idx == {i \in 1..Len(s) : s[i] \notin WS}
  IN IF idx = {} THEN << >>
     ELSE LET lo == CHOOSE i \in idx : \A j \in idx : i <= j
              hi == CHOOSE i \in idx : \A j \in idx : j <= i
          IN SubSeq(s, lo, hi)

squashWhitespace(s) == IF s = null THEN null ELSE Trim(CollapseWs(s))

LowerAtom(a) ==
  CASE a = "IT" -> "it"
    [] a = "Civil" -> "civil"
    [] a \in {"DESC", "Desc"} -> "desc"
    [] a = "ASC" -> "asc"
    [] OTHER -> a
toLowerCase(s) == [i \in 1..Len(s) |-> LowerAtom(s[i])]

\* The dates the model's records carry and the instants they parse to
\* (local time +02:00, stored as the UTC instant).
parseLocalTenderDate(s) ==
  CASE s = <<"2025-Oct-01", " ", "09:00:00">> -> <<"2025-10-01T07:00:00.000Z">>
    [] s = <<"2025-Nov-15", " ", "12:00:00">> -> <<"2025-11-15T10:00:00.000Z">>
    [] s = <<"2026/01/01", " ", "12:00">> -> <<"2026-01-01T10:00:00.000Z">>
    [] OTHER -> null

parseEtendersDate(s) ==
  CASE s = <<"2025-10-01T09:00:00">> -> <<"2025-10-01T09:00:00.000Z">>
    [] s = <<"2025-11-15T12:00:00Z">> -> <<"2025-11-15T12:00:00.000Z">>
    [] OTHER -> null

sha(fields) == fields

\* --------------------------------------------------------------- normalizers

CoreColumns ==
  {"external_id", "source_tender_id", "title", "description", "category",
   "location", "buyer", "procurement_method", "procurement_method_details",
   "status", "tender_type", "published_at", "briefing_at", "briefing_venue",
   "briefing_compulsory", "tender_start_at", "closing_at", "value_amount",
   "value_currency", "url", "hash", "tender_box_address", "target_audience",
   "contract_type", "project_type", "queries_to", "briefing_details"}

NullCore == [c \in CoreColumns |-> null]

With(core, vals) ==
  [c \in CoreColumns |-> IF c \in DOMAIN vals THEN vals[c] ELSE core[c]]

normalizeEskomRecord(r) ==
  LET core == With(NullCore,
        [external_id |-> Or(Get(r, "TenderID"), Get(r, "enquiryNumber")),
         source_tender_id |-> Or(Get(r, "TenderID"), null),
         title |-> Or(Or(Get(r, "enquiryNumber"), Get(r, "TenderID")),
                      <<"Eskom", " ", "Tender">>),
         description |->
           squashWhitespace(Or(Get(r, "scopeDetails"), Get(r, "description"))),
         category |-> Or(Get(r, "category"), null),
         location |-> Or(Or(Get(r, "TenderBoxAddress"), Get(r, "location")), null),
         buyer |-> <<"ESKOM">>,
         published_at |-> parseLocalTenderDate(Get(r, "published")),
         closing_at |-> parseLocalTenderDate(Get(r, "closing")),
         url |-> Or(Get(r, "readMore"), null),
         tender_box_address |-> Or(Get(r, "TenderBoxAddress"), null),
         target_audience |-> Or(Get(r, "TargetAudience"), null),
         contract_type |-> Or(Get(r, "ContractType"), null)])
      hashFields ==
        <<core.external_id, core.title, core.description, core.category,
          core.location, core.published_at, core.closing_at, core.url,
          core.tender_box_address, core.target_audience, core.contract_type>>
  IN [tender |-> With(core, [hash |-> sha(hashFields)]),
      documents |->
        IF Truthy(Get(r, "downloadLink"))
        THEN <<[url |-> r.downloadLink, name |-> null, mime_type |-> null,
                published_at |-> null]>>
        ELSE << >>,
      contacts |-> << >>]

normalizeEskomArray(arr) ==
  SelectSeq([i \in 1..Len(arr) |-> normalizeEskomRecord(arr[i])],
            LAMBDA x : Truthy(x.tender.external_id))

Str(v) == IF v = null THEN <<"undefined">> ELSE v

RECURSIVE etendersDocuments(_)
etendersDocuments(docs) ==
  IF docs = << >> THEN << >>
  ELSE LET doc == Head(docs)
       IN (IF Truthy(Get(doc, "fileName"))
           THEN <<[url |-> null,
                   name |-> squashWhitespace(doc.fileName),
                   mime_type |-> IF Get(doc, "extension") = <<".pdf">>
                                 THEN <<"application/pdf">> ELSE null,
                   published_at |-> parseEtendersDate(Get(doc, "dateModified"))]>>
           ELSE << >>) \o etendersDocuments(Tail(docs))

normalizeEtendersRecord(item) ==
  LET core == With(NullCore,
        [external_id |-> Or(Get(item, "tender_No"),
                            <<"etenders-">> \o Str(Get(item, "id"))),
         source_tender_id |-> IF Truthy(Get(item, "id")) THEN item.id ELSE null,
         title |-> Or(squashWhitespace(Get(item, "tender_No")),
                      <<"eTenders", " ", "Tender">>),
         description |-> squashWhitespace(Get(item, "description")),
         category |-> squashWhitespace(Or(Get(item, "category"),
                                          Get(item, "categories_name"))),
         location |-> squashWhitespace(Or(Or(Get(item, "town"),
                                             Get(item, "provinces_name")),
                                          Get(item, "province"))),
         buyer |-> squashWhitespace(Or(Or(Get(item, "organ_of_State"),
                                          Get(item, "departments_name")),
                                       Get(item, "department"))),
         procurement_method |-> squashWhitespace(Get(item, "type")),
         status |-> squashWhitespace(Get(item, "status")),
         tender_type |-> squashWhitespace(Get(item, "type")),
         published_at |-> parseEtendersDate(Get(item, "date_Published")),
         briefing_at |-> parseEtendersDate(Get(item, "compulsory_briefing_session")),
         briefing_venue |-> squashWhitespace(Get(item, "briefingVenue")),
         briefing_compulsory |->
           IF Get(item, "briefingCompulsory") \in {<<"true">>, <<"false">>}
           THEN item.briefingCompulsory ELSE null,
         closing_at |-> parseEtendersDate(Get(item, "closing_Date")),
         tender_box_address |-> squashWhitespace(Or(Get(item, "delivery"),
                                                    Get(item, "streetname"))),
         queries_to |-> squashWhitespace(Get(item, "contactPerson")),
         briefing_details |->
           IF Truthy(Get(item, "briefingSession"))
           THEN squashWhitespace(Get(item, "conditions")) ELSE null])
      hashFields ==
        <<core.external_id, core.title, core.description, core.category,
          core.location, core.buyer, core.published_at, core.closing_at,
          core.briefing_at, core.status>>
  IN [tender |-> With(core, [hash |-> sha(hashFields)]),
      documents |->
        IF "supportDocument" \in DOMAIN item
        THEN etendersDocuments(item.supportDocument) ELSE << >>,
      contacts |->
        IF Truthy(Get(item, "contactPerson")) \/ Truthy(Get(item, "email"))
           \/ Truthy(Get(item, "telephone"))
        THEN <<[name |-> squashWhitespace(Get(item, "contactPerson")),
                email |-> IF Truthy(Get(item, "email")) THEN Trim(item.email)
                          ELSE null,
                phone |-> squashWhitespace(Or(Get(item, "telephone"),
                                              Get(item, "fax")))]>>
        ELSE << >>]

\* A parsed JSON value is [t |-> "arr", v |-> <<...>>], [t |-> "obj", v |-> record]
\* or [t |-> "prim"]; the data member of an eTenders page is a sequence.
normalizeEtendersArray(raw) ==
  IF raw.t # "obj" \/ "data" \notin DOMAIN raw.v THEN << >>
  ELSE SelectSeq([i \in 1..Len(raw.v.data) |->
                    normalizeEtendersRecord(raw.v.data[i])],
                 LAMBDA x : Truthy(x.tender.external_id))

asArray(raw) ==
  IF raw.t = "arr" THEN raw.v ELSE IF raw.t = "obj" THEN <<raw.v>> ELSE << >>

\* Source detection by key prefix; a key is <<prefix, name>> and holds no
\* escape, so decoding it leaves it as it is.
detectSource(key) ==
  CASE key[1] = "eskom/" -> <<"eskom">>
    [] key[1] = "sanral/" -> <<"sanral">>
    [] key[1] = "transnet/" -> <<"transnet">>
    [] key[1] = "etenders/" -> <<"etenders">>
    [] OTHER -> null

\* normalizeSanralArray and normalizeTransnetArray are called by the handler
\* and defined nowhere in the file: calling them throws a ReferenceError.
NormalizerDefined(source) == source \in {<<"eskom">>, <<"etenders">>}

normalize(source, raw) ==
  IF source = <<"eskom">> THEN normalizeEskomArray(asArray(raw))
  ELSE normalizeEtendersArray(raw)

\* ------------------------------------------------------------- object store

EskomT1 ==
  [TenderID |-> <<"T-1">>, enquiryNumber |-> <<"E1">>,
   scopeDetails |-> <<" ", " ", "scope", " ", " ", " ", "text", " ", " ">>,
   published |-> <<"2025-Oct-01", " ", "09:00:00">>,
   closing |-> <<"2025-Nov-15", " ", "12:00:00">>,
   category |-> <<"IT">>,
   readMore |-> <<"https://x/tender/X">>,
   downloadLink |-> <<"https://x/DownloadAll?id=X">>]

EskomT1NewZip == [EskomT1 EXCEPT !.downloadLink = <<"https://x/NewZip">>]

EskomE2 == [enquiryNumber |-> <<"E2">>, scopeDetails |-> <<"pumps">>]

EskomNoId == [scopeDetails |-> <<"no", " ", "reference">>]

EtendersT1 ==
  [tender_No |-> <<"T-1">>, id |-> <<"77">>,
   description |-> <<"road", " ", " ", "works">>,
   category |-> <<"Civil">>,
   date_Published |-> <<"2025-10-01T09:00:00">>,
   closing_Date |-> <<"2025-11-15T12:00:00Z">>,
   supportDocument |->
     <<[fileName |-> <<"spec.pdf">>, extension |-> <<".pdf">>],
       [fileName |-> <<"spec.pdf">>, extension |-> <<".pdf">>]>>,
   contactPerson |-> <<"Jane">>, email |-> <<" ", "jane@example.co.za">>]

\* eTenders items without tender_No: one with the portal's numeric id, two
\* with neither.
EtendersNoRef ==
  [id |-> <<"78">>, description |-> <<"fencing">>,
   supportDocument |-> <<[fileName |-> <<"bid.docx">>]>>,
   telephone |-> <<"012", " ", "345">>]

EtendersAnon1 == [description |-> <<"catering">>]

EtendersAnon2 == [description |-> <<"security">>]

\* Records that differ only in fields the hash does not cover.
EskomX9ById == [TenderID |-> <<"X-9">>, scopeDetails |-> <<"valves">>]

EskomX9ByEnquiry == [enquiryNumber |-> <<"X-9">>, scopeDetails |-> <<"valves">>]

EtendersT1Rfq == [EtendersT1 EXCEPT !.id = <<"79">>] @@ [type |-> <<"RFQ">>]

\* Eskom records whose category has blanks around it, or is blank.
EskomC1 == [TenderID |-> <<"C-1">>, category |-> <<" ", "IT", " ">>]

EskomC2 == [TenderID |-> <<"C-2">>, category |-> <<" ">>]

KeyA == <<"eskom/", "a.json">>
KeyB == <<"eskom/", "b.json">>
KeyP == <<"etenders/", "p0001.json">>
KeyBad == <<"eskom/", "bad.json">>
KeyEmpty == <<"etenders/", "empty.json">>
KeyMisc == <<"misc/", "x.json">>
KeyQ == <<"etenders/", "p0002.json">>
KeyH == <<"eskom/", "h.json">>
KeyC == <<"eskom/", "c.json">>
KeyG == <<"etenders/", "p0003.json">>
KeySanral == <<"sanral/", "s.json">>
KeyTransnet == <<"transnet/", "t.json">>
KeyBig == <<"eskom/", "big.json">>

\* The records of the large object: more than PUBLISH_CAP of them.
ManyRecords == 11

\* The body of each object: text that parses as JSON, or text that does not.
Bucket(key) ==
  CASE key = KeyA -> [json |-> TRUE,
                      raw |-> [t |-> "arr", v |-> <<EskomT1, EskomNoId, EskomE2>>]]
    [] key = KeyB -> [json |-> TRUE, raw |-> [t |-> "obj", v |-> EskomT1NewZip]]
    [] key = KeyP -> [json |-> TRUE,
                      raw |-> [t |-> "obj",
                               v |-> [data |-> <<EtendersT1, EtendersT1>>]]]
    [] key = KeyEmpty -> [json |-> TRUE,
                          raw |-> [t |-> "obj", v |-> [data |-> << >>]]]
    [] key = KeyQ -> [json |-> TRUE,
                      raw |-> [t |-> "obj",
                               v |-> [data |-> <<EtendersNoRef, EtendersAnon1,
                                                 EtendersAnon2>>]]]
    [] key = KeyH -> [json |-> TRUE,
                      raw |-> [t |-> "arr", v |-> <<EskomX9ById, EskomX9ByEnquiry>>]]
    [] key = KeyG -> [json |-> TRUE,
                      raw |-> [t |-> "obj",
                               v |-> [data |-> <<EtendersT1, EtendersT1Rfq>>]]]
    [] key = KeyC -> [json |-> TRUE,
                      raw |-> [t |-> "arr", v |-> <<EskomC1, EskomC2, EskomE2>>]]
    [] key = KeyMisc -> [json |-> TRUE, raw |-> [t |-> "arr", v |-> <<EskomT1>>]]
    [] key = KeySanral -> [json |-> TRUE, raw |-> [t |-> "arr", v |-> <<EskomT1>>]]
    [] key = KeyTransnet -> [json |-> TRUE, raw |-> [t |-> "arr", v |-> <<EskomT1>>]]
    [] key = KeyBig -> [json |-> TRUE,
                        raw |-> [t |-> "arr",
                                 v |-> [i \in 1..ManyRecords |-> EskomE2]]]
    [] OTHER -> [json |-> FALSE]

\* -------------------------------------------------------------------- state

Workers == {"w1", "w2"}

\* Faults the environment may inject in one run, and deliveries the queue
\* makes to one worker instance.
MaxFaults == 1
MaxDeliveries == 2

BATCH_SIZE == 100
PUBLISH_CAP == 10

SourcesTable(name) ==
  CASE name = <<"eskom">> -> 1
    [] name = <<"sanral">> -> 2
    [] name = <<"transnet">> -> 3
    [] name = <<"etenders">> -> 4

VARIABLES
  event,           \* the queue event: a sequence of messages
  quota,           \* deliveries of the event the queue still makes to a worker
  faults,          \* failures injected so far
  pool,            \* per instance: the memoized pool exists
  sourceIdCache,   \* per instance: the source names whose id is cached
  h,               \* per invocation: position and locals of the handler
  toPublish,       \* per invocation: the publish intents
  totalProcessed,  \* per invocation: the counter the handler returns
  result,          \* per invocation: "none", "ok" (returned) or "raised"
  failedAt,        \* per invocation: the awaits that failed, by position
  raises,          \* invocations that raised so far (the queue redelivers)
  rowsDone,        \* per invocation: rows whose try block ran to its end
  attempts,        \* per invocation: sns.send calls made
  client,          \* per worker: the connection and its transaction
  tenders,         \* committed rows of table tenders
  documents,       \* committed rows of table documents (a bag, ids dropped)
  contacts,        \* committed rows of table contacts (a bag, ids dropped)
  tenderSeq,       \* the sequence behind tenders.id
  clock,           \* the database clock, read by now() at BEGIN
  writer,          \* history: tender id -> the ingest item that last wrote it
  published        \* the messages the topic accepted (a bag)

\* The query API (tender-api-handler) and the pub/sub topic's subscriptions.
VARIABLES
  apiQuota,        \* requests the gateway still sends to the API instance
  apiPool,         \* the API instance's memoized pool exists
  api,             \* the API invocation: position, request and locals
  apiHeld,         \* connections the API invocation holds
  response,        \* what the last API invocation returned
  user_preferences,\* rows of table user_preferences (a bag)
  subscriptions,   \* the topic's subscriptions: endpoint and filter category
  subscribeCalls,  \* history: the Subscribe calls of the API invocation
  saved,           \* history: email -> categories of its last save answered 200
  delivered        \* history: the deliveries the topic made

apiVars == <<apiQuota, apiPool, api, apiHeld, response, user_preferences,
             subscriptions, subscribeCalls, saved, delivered>>

\* The eTenders fetcher (etenders-fetcher), the portal and the object store.
VARIABLES
  USE_CONCURRENT,  \* the deployment's mode: process.env.USE_CONCURRENT === 'true'
  invocations,     \* the asynchronous invocations of the fetcher not yet started
  f,               \* the fetcher invocation: position and locals
  now,             \* Date.now(), in ms
  pageFaults,      \* responses other than 200 with data, and failed calls, so far
  requested,       \* history: the page requests made and their responses
  objects,         \* the objects the fetcher has put in the store
  returned         \* history: what each invocation returned

fetcherVars == <<USE_CONCURRENT, invocations, f, now, pageFaults, requested,
                 objects, returned>>

\* The scrapers (Eskom, SANRAL) and the objects they put in the store.
VARIABLES
  scrapeQuota,     \* invocations of a scraper still to come
  sc,              \* the scraper invocation: position and locals
  scraped,         \* the objects the scrapers have put in the store
  scraperReturned  \* history: what each invocation returned, or that it raised

scraperVars == <<scrapeQuota, sc, scraped, scraperReturned>>

\* What the ingest worker's steps leave alone.
others == <<apiVars, fetcherVars, scraperVars>>

vars == <<event, quota, faults, pool, sourceIdCache, h, toPublish,
          totalProcessed, result, failedAt, raises, rowsDone, attempts, client,
          tenders, documents, contacts, tenderSeq, clock, writer, published,
          apiVars, fetcherVars, scraperVars>>

db == <<tenders, documents, contacts, writer>>

Idle ==
  [pc |-> "idle", mi |-> 0, ri |-> 0, source |-> null, items |-> << >>,
   bi |-> 0, ii |-> 0, di |-> 0, ci |-> 0, pi |-> 0, sourceId |-> 0,
   tenderId |-> 0]

NoTx ==
  [tx |-> "idle", txTime |-> 0, wT |-> {}, delD |-> {}, insD |-> EmptyBag,
   delC |-> {}, insC |-> EmptyBag, wW |-> << >>]

Released == [held |-> FALSE, dead |-> FALSE] @@ NoTx

NoTxOn(c) == [held |-> c.held, dead |-> c.dead] @@ NoTx

\* A queue message: a body that is JSON with its Records, or one that is not.
Msg(keys) == [json |-> TRUE, Records |-> keys]
BadMsg == [json |-> FALSE, Records |-> << >>]

\* ----------------------------------------------------------------- database
\* PostgreSQL as the handler uses it: one connection per invocation, READ
\* COMMITTED, a transaction's writes kept apart until COMMIT, a failed
\* statement aborting the transaction (every later statement fails and COMMIT
\* ends it as a rollback), row locks held until the transaction ends.

Min(a, b) == IF a <= b THEN a ELSE b
Max(a, b) == IF a >= b THEN a ELSE b

TenderRow(t, id, sid, ts) ==
  [c \in CoreColumns \cup {"id", "source_id", "last_seen_at"} |->
     CASE c = "id" -> id
       [] c = "source_id" -> sid
       [] c = "last_seen_at" -> ts
       [] OTHER -> t[c]]

Without(bag, ids) == [r \in {x \in DOMAIN bag : x.tender_id \notin ids} |-> bag[r]]

\* What the transaction of connection c sees.
ViewTenders(c) == {r \in tenders : r.id \notin {x.id : x \in c.wT}} \cup c.wT
ViewDocuments(c) == Without(documents, c.delD) (+) c.insD
ViewContacts(c) == Without(contacts, c.delC) (+) c.insC

\* UPSERT_TENDER_SQL: INSERT ... ON CONFLICT (source_id, external_id) DO UPDATE
\* SET every column, last_seen_at = now() RETURNING id.
UpsertInsertsAlways(c, sid, t) ==
  [id |-> tenderSeq + 1, seq |-> tenderSeq + 1,
   wT |-> c.wT \cup {TenderRow(t, tenderSeq + 1, sid, c.txTime)}]

UpsertTender(c, sid, t) ==
  LET ex == {r \in ViewTenders(c) :
               r.source_id = sid /\ r.external_id = t.external_id}
  IN IF ex # {}
     THEN LET old == CHOOSE r \in ex : TRUE
          IN [id |-> old.id, seq |-> tenderSeq,
              wT |-> {x \in c.wT : x.id # old.id}
                       \cup {TenderRow(t, old.id, sid, c.txTime)}]
     ELSE [id |-> tenderSeq + 1, seq |-> tenderSeq + 1,
           wT |-> c.wT \cup {TenderRow(t, tenderSeq + 1, sid, c.txTime)}]

\* DELETE FROM documents WHERE tender_id=$1 / DELETE FROM contacts ...
DeleteKeeps(c, tenderId) == c

DeleteDocumentsOf(c, tenderId) ==
  [c EXCEPT !.delD = @ \cup {tenderId}, !.insD = Without(@, {tenderId})]

DeleteContactsOf(c, tenderId) ==
  [c EXCEPT !.delC = @ \cup {tenderId}, !.insC = Without(@, {tenderId})]

\* INSERT INTO documents (tender_id, url, name, mime_type, published_at)
DocumentRow(tenderId, d) ==
  [tender_id |-> tenderId, url |-> d.url, name |-> Or(d.name, null),
   mime_type |-> Or(d.mime_type, null), published_at |-> Or(d.published_at, null)]

\* INSERT INTO contacts (tender_id, name, email, phone)
ContactRow(tenderId, k) ==
  [tender_id |-> tenderId, name |-> Or(k.name, null), email |-> Or(k.email, null),
   phone |-> Or(k.phone, null)]

\* Another transaction in progress holds the lock of the row (sid, ext).
Locked(w, sid, ext) ==
  \E v \in Workers \ {w} :
    /\ client[v].tx # "idle"
    /\ \E r \in client[v].wT : r.source_id = sid /\ r.external_id = ext

\* The outcomes of one statement on connection c: "ok"; "err", the failure
\* that a dead connection or an aborted transaction makes certain; and the
\* injected ones, "sql" (the statement is rejected: the transaction aborts)
\* and "conn" (the connection is lost: the server drops the transaction).
Outcomes(c) ==
  IF c.dead \/ c.tx = "aborted" THEN {"err"}
  ELSE {"ok"} \cup (IF faults < MaxFaults THEN {"sql", "conn"} ELSE {})

AfterStatement(c, o) ==
  CASE o = "sql" -> [c EXCEPT !.tx = IF c.tx = "open" THEN "aborted" ELSE c.tx]
    [] o = "conn" -> [NoTxOn(c) EXCEPT !.dead = TRUE]
    [] OTHER -> c

Injected(o) == IF o \in {"sql", "conn", "fail"} THEN 1 ELSE 0

\* COMMIT of the transaction of c, as the new committed tables.
CommittedTenders(c) == ViewTenders(c)
CommittedDocuments(c) == ViewDocuments(c)
CommittedContacts(c) == ViewContacts(c)

\* ------------------------------------------------------------------ handler
\* exports.handler of the ingest worker.  One action per await: it takes the
\* outcome of the awaited call and runs the synchronous code up to the next.

\* The non-JSON message is skipped as `break` would: the loop ends.
RECURSIVE SeekStops(_, _, _)
SeekStops(ev, mi, ri) ==
  IF mi > Len(ev) \/ ~ev[mi].json THEN <<0, 0>>
  ELSE IF ri > Len(ev[mi].Records) THEN SeekStops(ev, mi + 1, 1)
  ELSE <<mi, ri>>

RECURSIVE Seek(_, _, _)
\* The next notification at or after record ri of message mi: the two loop
\* heads, a message whose body is not JSON being skipped.  <<0, 0>>: none.
Seek(ev, mi, ri) ==
  IF mi > Len(ev) THEN <<0, 0>>
  ELSE IF ~ev[mi].json \/ ri > Len(ev[mi].Records) THEN Seek(ev, mi + 1, 1)
  ELSE <<mi, ri>>

BatchEnd(hw) == Min(hw.bi + BATCH_SIZE - 1, Len(hw.items))

\* The environment's record of a call that did not succeed.
Mark(w, o) ==
  /\ faults' = faults + Injected(o)
  /\ failedAt' = IF o = "ok" THEN failedAt
                 ELSE [failedAt EXCEPT ![w] = @ \cup {h[w].pc}]

\* The handler ends with the value returned or the error raised.
Ends(w, res) ==
  /\ h' = [h EXCEPT ![w] = Idle]
  /\ result' = [result EXCEPT ![w] = res]
  /\ raises' = raises + (IF res = "raised" THEN 1 ELSE 0)

\* client.release() in the finally block, then the handler ends.
Finish(w, res) ==
  /\ Ends(w, res)
  /\ client' = [client EXCEPT ![w] = Released]

Goes(w, hw, c) ==
  /\ h' = [h EXCEPT ![w] = hw]
  /\ client' = [client EXCEPT ![w] = c]
  /\ UNCHANGED <<result, raises>>

\* The loops move on from notification (mi, ri): to the fetch of the next
\* one, or past the loops to the publish loop and the return.
Continue(w, c, mi, ri) ==
  LET pos == Seek(event, mi, ri)
  IN IF pos # <<0, 0>>
     THEN Goes(w, [Idle EXCEPT !.pc = "fetch", !.mi = pos[1], !.ri = pos[2]], c)
     ELSE IF toPublish[w] # << >>
     THEN Goes(w, [Idle EXCEPT !.pc = "publish", !.pi = 1], c)
     ELSE Finish(w, "ok")

\* The catch block is entered: ROLLBACK is next.
Throw(w, c) == Goes(w, [Idle EXCEPT !.pc = "rollback"], c)

\* The queue delivers the event to an idle instance.
Invoke(w) ==
  /\ h[w].pc = "idle"
  /\ quota[w] > 0
  /\ quota' = [quota EXCEPT ![w] = @ - 1]
  /\ h' = [h EXCEPT ![w] = [Idle EXCEPT !.pc = "getPool"]]
  /\ toPublish' = [toPublish EXCEPT ![w] = << >>]
  /\ totalProcessed' = [totalProcessed EXCEPT ![w] = 0]
  /\ result' = [result EXCEPT ![w] = "none"]
  /\ failedAt' = [failedAt EXCEPT ![w] = {}]
  /\ rowsDone' = [rowsDone EXCEPT ![w] = 0]
  /\ attempts' = [attempts EXCEPT ![w] = 0]
  /\ UNCHANGED <<others, event, faults, raises, pool, sourceIdCache, client, db,
                 tenderSeq, clock, published>>

\* getPool() without the memo: the password is fetched at every invocation.
GetPoolFresh(w) ==
  /\ h[w].pc = "getPool"
  /\ \E o \in {"ok"} \cup (IF faults < MaxFaults THEN {"fail"} ELSE {}) :
       /\ Mark(w, o)
       /\ IF o = "ok"
          THEN /\ pool' = [pool EXCEPT ![w] = TRUE]
               /\ h' = [h EXCEPT ![w].pc = "connect"]
               /\ UNCHANGED <<result, raises>>
          ELSE /\ Ends(w, "raised")
               /\ UNCHANGED pool
  /\ UNCHANGED <<others, event, quota, sourceIdCache, toPublish, totalProcessed,
                 rowsDone, attempts, client, db, tenderSeq, clock, published>>

\* getPool(): the memoized pool, or the password fetch and a new pool.
GetPool(w) ==
  /\ h[w].pc = "getPool"
  /\ \E o \in {"ok"} \cup (IF ~pool[w] /\ faults < MaxFaults THEN {"fail"} ELSE {}) :
       /\ Mark(w, o)
       /\ IF o = "ok"
          THEN /\ pool' = [pool EXCEPT ![w] = TRUE]
               /\ h' = [h EXCEPT ![w].pc = "connect"]
               /\ UNCHANGED <<result, raises>>
          ELSE /\ Ends(w, "raised")
               /\ UNCHANGED pool
  /\ UNCHANGED <<others, event, quota, sourceIdCache, toPublish, totalProcessed,
                 rowsDone, attempts, client, db, tenderSeq, clock, published>>

\* db.connect(), before the try block.
Connect(w) ==
  /\ h[w].pc = "connect"
  /\ \E o \in {"ok"} \cup (IF faults < MaxFaults THEN {"fail"} ELSE {}) :
       /\ Mark(w, o)
       /\ IF o = "ok"
          THEN Continue(w, [client[w] EXCEPT !.held = TRUE], 1, 1)
          ELSE /\ Ends(w, "raised")
               /\ UNCHANGED client
  /\ UNCHANGED <<others, event, quota, pool, sourceIdCache, toPublish, totalProcessed,
                 rowsDone, attempts, db, tenderSeq, clock, published>>

\* s3.send(GetObjectCommand), then the parse, the dispatch and the normalizer.
Fetch(w) ==
  /\ h[w].pc = "fetch"
  /\ LET key == event[h[w].mi].Records[h[w].ri]
         body == Bucket(key)
         source == detectSource(key)
         skip == Continue(w, client[w], h[w].mi, h[w].ri + 1)
     IN \E o \in {"ok"} \cup (IF faults < MaxFaults THEN {"fail"} ELSE {}) :
          /\ Mark(w, o)
          /\ IF o = "fail" THEN Throw(w, client[w])
             ELSE IF ~body.json \/ source = null THEN skip
             ELSE IF ~NormalizerDefined(source) THEN Throw(w, client[w])
             ELSE IF normalize(source, body.raw) = << >> THEN skip
             ELSE Goes(w, [h[w] EXCEPT !.pc = "begin", !.source = source,
                                       !.items = normalize(source, body.raw),
                                       !.bi = 1], client[w])
  /\ UNCHANGED <<others, event, quota, pool, sourceIdCache, toPublish, totalProcessed,
                 rowsDone, attempts, db, tenderSeq, clock, published>>

\* client.query('BEGIN'), then getSourceId when the id is cached.
Begin(w) ==
  /\ h[w].pc = "begin"
  /\ LET c == client[w]
     IN \E o \in (IF c.dead THEN {"err"} ELSE {"ok"})
                   \cup (IF ~c.dead /\ faults < MaxFaults THEN {"conn"} ELSE {}) :
          /\ Mark(w, o)
          /\ IF o = "ok"
             THEN /\ clock' = clock + 1
                  /\ Goes(w, IF h[w].source \in sourceIdCache[w]
                             THEN [h[w] EXCEPT !.pc = "upsert",
                                     !.sourceId = SourcesTable(h[w].source),
                                     !.ii = h[w].bi]
                             ELSE [h[w] EXCEPT !.pc = "source"],
                          [NoTxOn(c) EXCEPT !.tx = "open", !.txTime = clock + 1])
             ELSE /\ Throw(w, AfterStatement(c, o))
                  /\ UNCHANGED clock
  /\ UNCHANGED <<others, event, quota, pool, sourceIdCache, toPublish, totalProcessed,
                 rowsDone, attempts, db, tenderSeq, published>>

\* getSourceId: SELECT id FROM sources WHERE name=$1, cached on success.
SourceLookup(w) ==
  /\ h[w].pc = "source"
  /\ \E o \in Outcomes(client[w]) :
       /\ Mark(w, o)
       /\ IF o = "ok"
          THEN /\ sourceIdCache' = [sourceIdCache EXCEPT ![w] = @ \cup {h[w].source}]
               /\ Goes(w, [h[w] EXCEPT !.pc = "upsert",
                                       !.sourceId = SourcesTable(h[w].source),
                                       !.ii = h[w].bi], client[w])
          ELSE /\ Throw(w, AfterStatement(client[w], o))
               /\ UNCHANGED sourceIdCache
  /\ UNCHANGED <<others, event, quota, pool, toPublish, totalProcessed, rowsDone,
                 attempts, db, tenderSeq, clock, published>>

\* The row loop moves on: to the next item of the batch, or to COMMIT.
NextRow(hw) ==
  IF hw.ii < BatchEnd(hw)
  THEN [hw EXCEPT !.pc = "upsert", !.ii = hw.ii + 1, !.di = 0, !.ci = 0,
                  !.tenderId = 0]
  ELSE [hw EXCEPT !.pc = "commit", !.ii = 0, !.di = 0, !.ci = 0, !.tenderId = 0]

\* The message queued for an upserted tender.
\* The category is queued as it comes: no trim, no lower case.
IntentRawCategory(tenderId, t, source) ==
  [tenderId |-> tenderId, title |-> t.title,
   category |-> Or(Or(t.category, source), <<"general">>),
   source |-> source, published_at |-> t.published_at,
   closing_at |-> t.closing_at, url |-> t.url]

Intent(tenderId, t, source) ==
  [tenderId |-> tenderId, title |-> t.title,
   category |-> toLowerCase(Trim(Or(Or(t.category, source), <<"general">>))),
   source |-> source, published_at |-> t.published_at,
   closing_at |-> t.closing_at, url |-> t.url]

QueueUncapped(q, m) == Append(q, m)

QueueIntent(q, m) == IF Len(q) < PUBLISH_CAP THEN Append(q, m) ELSE q

\* The intent is published as soon as the row is done, inside the batch.
RowEndPublishes(w, c) ==
  /\ toPublish' = [toPublish EXCEPT ![w] =
       QueueIntent(@, Intent(h[w].tenderId, h[w].items[h[w].ii].tender,
                             h[w].source))]
  /\ Goes(w, [h[w] EXCEPT !.pc = "publish", !.pi = Len(toPublish'[w])], c)
  /\ rowsDone' = [rowsDone EXCEPT ![w] = @ + 1]

\* The end of the row's try block: the intent is queued.
RowEnd(w, c) ==
  /\ Goes(w, NextRow(h[w]), c)
  /\ toPublish' = [toPublish EXCEPT ![w] =
       QueueIntent(@, Intent(h[w].tenderId, h[w].items[h[w].ii].tender,
                             h[w].source))]
  /\ rowsDone' = [rowsDone EXCEPT ![w] = @ + 1]

\* The catch of the row's try block: the error is logged and the loop goes on.
RowCaught(w, c) ==
  /\ Goes(w, NextRow(h[w]), c)
  /\ UNCHANGED <<toPublish, rowsDone>>

\* client.query(UPSERT_TENDER_SQL, params); it waits for the row's lock.
Upsert(w) ==
  /\ h[w].pc = "upsert"
  /\ LET c == client[w]
         it == h[w].items[h[w].ii]
     IN \E o \in Outcomes(c) :
          /\ o = "ok" => ~Locked(w, h[w].sourceId, it.tender.external_id)
          /\ Mark(w, o)
          /\ IF o = "ok"
             THEN LET u == UpsertTender(c, h[w].sourceId, it.tender)
                  IN /\ Goes(w, [h[w] EXCEPT !.pc = "delDocs", !.tenderId = u.id],
                             [c EXCEPT !.wT = u.wT, !.wW = (u.id :> it) @@ c.wW])
                     /\ tenderSeq' = u.seq
                     /\ totalProcessed' = [totalProcessed EXCEPT ![w] = @ + 1]
             ELSE /\ Goes(w, NextRow(h[w]), AfterStatement(c, o))
                  /\ UNCHANGED <<tenderSeq, totalProcessed>>
  /\ UNCHANGED <<others, event, quota, pool, sourceIdCache, toPublish, rowsDone,
                 attempts, db, clock, published>>

\* DELETE FROM documents WHERE tender_id=$1
DeleteDocuments(w) ==
  /\ h[w].pc = "delDocs"
  /\ LET c == client[w]
         it == h[w].items[h[w].ii]
     IN \E o \in Outcomes(c) :
          /\ Mark(w, o)
          /\ IF o = "ok"
             THEN Goes(w, IF it.documents # << >>
                          THEN [h[w] EXCEPT !.pc = "insDoc", !.di = 1]
                          ELSE [h[w] EXCEPT !.pc = "delContacts"],
                       DeleteDocumentsOf(c, h[w].tenderId))
             ELSE Goes(w, NextRow(h[w]), AfterStatement(c, o))
  /\ UNCHANGED <<others, event, quota, pool, sourceIdCache, toPublish, totalProcessed,
                 rowsDone, attempts, db, tenderSeq, clock, published>>

\* INSERT INTO documents ... for document di of the item
InsertDocument(w) ==
  /\ h[w].pc = "insDoc"
  /\ LET c == client[w]
         it == h[w].items[h[w].ii]
     IN \E o \in Outcomes(c) :
          /\ Mark(w, o)
          /\ IF o = "ok"
             THEN Goes(w, IF h[w].di < Len(it.documents)
                          THEN [h[w] EXCEPT !.di = @ + 1]
                          ELSE [h[w] EXCEPT !.pc = "delContacts", !.di = 0],
                       [c EXCEPT !.insD =
                          @ (+) SetToBag({DocumentRow(h[w].tenderId,
                                                      it.documents[h[w].di])})])
             ELSE Goes(w, NextRow(h[w]), AfterStatement(c, o))
  /\ UNCHANGED <<others, event, quota, pool, sourceIdCache, toPublish, totalProcessed,
                 rowsDone, attempts, db, tenderSeq, clock, published>>

\* DELETE FROM contacts WHERE tender_id=$1; with no contact the row ends here.
DeleteContacts(w) ==
  /\ h[w].pc = "delContacts"
  /\ LET c == client[w]
         it == h[w].items[h[w].ii]
     IN \E o \in Outcomes(c) :
          /\ Mark(w, o)
          /\ IF o # "ok" THEN RowCaught(w, AfterStatement(c, o))
             ELSE IF it.contacts = << >>
             THEN RowEnd(w, DeleteContactsOf(c, h[w].tenderId))
             ELSE /\ Goes(w, [h[w] EXCEPT !.pc = "insContact", !.ci = 1],
                          DeleteContactsOf(c, h[w].tenderId))
                  /\ UNCHANGED <<toPublish, rowsDone>>
  /\ UNCHANGED <<others, event, quota, pool, sourceIdCache, totalProcessed, attempts, db,
                 tenderSeq, clock, published>>

\* INSERT INTO contacts ... for contact ci; after the last one the row ends.
InsertContact(w) ==
  /\ h[w].pc = "insContact"
  /\ LET c == client[w]
         it == h[w].items[h[w].ii]
         ins == [c EXCEPT !.insC =
                   @ (+) SetToBag({ContactRow(h[w].tenderId, it.contacts[h[w].ci])})]
     IN \E o \in Outcomes(c) :
          /\ Mark(w, o)
          /\ IF o # "ok" THEN RowCaught(w, AfterStatement(c, o))
             ELSE IF h[w].ci = Len(it.contacts) THEN RowEnd(w, ins)
             ELSE /\ Goes(w, [h[w] EXCEPT !.ci = @ + 1], ins)
                  /\ UNCHANGED <<toPublish, rowsDone>>
  /\ UNCHANGED <<others, event, quota, pool, sourceIdCache, totalProcessed, attempts, db,
                 tenderSeq, clock, published>>

\* client.query('COMMIT').  An aborted transaction ends as a rollback and
\* COMMIT returns normally; when the connection is lost during COMMIT the
\* transaction may or may not have been committed ("lost", "lostApplied").
Commit(w) ==
  /\ h[w].pc = "commit"
  /\ LET c == client[w]
         nb == h[w].bi + BATCH_SIZE
         open == c.tx = "open"
     IN \E o \in (IF c.dead THEN {"err"} ELSE {"ok"})
                   \cup (IF ~c.dead /\ faults < MaxFaults
                         THEN {"lost"} \cup (IF open THEN {"lostApplied"} ELSE {})
                         ELSE {}) :
          /\ faults' = faults + (IF o \in {"lost", "lostApplied"} THEN 1 ELSE 0)
          /\ failedAt' = IF o = "ok" THEN failedAt
                         ELSE [failedAt EXCEPT ![w] = @ \cup {"commit"}]
          /\ IF open /\ o \in {"ok", "lostApplied"}
             THEN /\ tenders' = CommittedTenders(c)
                  /\ documents' = CommittedDocuments(c)
                  /\ contacts' = CommittedContacts(c)
                  /\ writer' = c.wW @@ writer
             ELSE UNCHANGED db
          /\ IF o # "ok"
             THEN Throw(w, IF o = "err" THEN c ELSE [NoTxOn(c) EXCEPT !.dead = TRUE])
             ELSE IF nb <= Len(h[w].items)
             THEN Goes(w, [h[w] EXCEPT !.pc = "begin", !.bi = nb], NoTxOn(c))
             ELSE Continue(w, NoTxOn(c), h[w].mi, h[w].ri + 1)
  /\ UNCHANGED <<others, event, quota, pool, sourceIdCache, toPublish, totalProcessed,
                 rowsDone, attempts, tenderSeq, clock, published>>

\* The catch block: ROLLBACK is attempted, its own failure is swallowed, the
\* client is released and the error is raised again.
RollbackReturns(w) == Finish(w, "ok")

RollbackAndRaise(w) == Finish(w, "raised")

Rollback(w) ==
  /\ h[w].pc = "rollback"
  /\ RollbackAndRaise(w)
  /\ UNCHANGED <<others, event, quota, faults, failedAt, pool, sourceIdCache, toPublish,
                 totalProcessed, rowsDone, attempts, db, tenderSeq, clock,
                 published>>

\* The publish loop moves on: to the next intent, or to return {ok: true}.
\* The PublishCommand of an intent: the payload as the message and its
\* category as the message attribute.
PublishCommand(msg) ==
  [Message |-> msg, MessageAttributes |-> [category |-> msg.category]]

PublishNext(w) ==
  IF h[w].pi < Len(toPublish[w])
  THEN Goes(w, [h[w] EXCEPT !.pi = @ + 1], client[w])
  ELSE Finish(w, "ok")

PublishRethrows(w) == Throw(w, client[w])

\* The catch around sns.send: the failure is logged and the loop goes on.
PublishCaught(w) == PublishNext(w)

\* sns.send(PublishCommand) for intent pi.
Publish(w) ==
  /\ h[w].pc = "publish"
  /\ \E o \in {"ok"} \cup (IF faults < MaxFaults THEN {"fail"} ELSE {}) :
       /\ Mark(w, o)
       /\ IF o = "ok"
          THEN /\ published' = published
                             (+) SetToBag({PublishCommand(toPublish[w][h[w].pi])})
               /\ PublishNext(w)
          ELSE /\ UNCHANGED published
               /\ PublishCaught(w)
  /\ attempts' = [attempts EXCEPT ![w] = @ + 1]
  /\ UNCHANGED <<others, event, quota, pool, sourceIdCache, toPublish, totalProcessed,
                 rowsDone, db, tenderSeq, clock>>

\* ---------------------------------------------------------------- query API
\* handler of the query API.  One action per await, as for the ingest worker;
\* every statement runs on its own (no BEGIN), so it is committed when it
\* returns.

\* The variables of the ingest worker and the store it writes.
ingestVars == <<event, quota, pool, sourceIdCache, h, toPublish, totalProcessed,
                result, failedAt, raises, rowsDone, attempts, client, tenders,
                documents, contacts, tenderSeq, clock, writer, published>>

\* Table users: the users and their ids.
Ann == <<"ann@example.co.za">>
Bob == <<"bob@example.co.za">>

\* Every email has a user.
EveryoneIsUser == [e \in {Ann, Bob} |-> 1]

UsersTable == [e \in {Ann} |-> 1]

\* event.body of a request: text that is not JSON, or the JSON object parsed,
\* categories being an array, another value, or absent.
NotJson == [json |-> FALSE]
Body(fields) == [json |-> TRUE, v |-> fields]
Array(L) == [t |-> "arr", v |-> L]
NotAnArray == [t |-> "prim", v |-> << >>]

\* No statement composed yet.
NoStatement ==
  [orderBy |-> "", direction |-> "", nulls |-> "", limit |-> 0, offset |-> 0]

\* atEntry is history: the preferences when the request came.
ApiIdle ==
  [pc |-> "idle", method |-> "", path |-> "", body |-> NotJson,
   email |-> null, categories |-> << >>, userId |-> 0, i |-> 0,
   atEntry |-> EmptyBag, qp |-> << >>, dataSql |-> NoStatement, total |-> 0]

\* The responses: body is the JSON text.
cors ==
  [ContentType |-> "application/json", AccessControlAllowOrigin |-> "*",
   AccessControlAllowHeaders |-> "Content-Type,Authorization"]
ok(body) == [statusCode |-> 200, headers |-> cors, body |-> body]
bad(code, msg) ==
  [statusCode |-> code, headers |-> cors, body |-> "{\"error\":\"" \o msg \o "\"}"]

\* No response yet, and the error of a handler that raised.
NoResponse == [statusCode |-> 0, headers |-> << >>, body |-> ""]
Raised == [statusCode |-> 0, headers |-> << >>, body |-> "raised"]

\* The handler returns res with no release of the connection.
ApiReturnHolds(res, held) ==
  /\ response' = res
  /\ apiHeld' = held
  /\ api' = ApiIdle

\* The handler returns res: the finally block releases the connection, of
\* which the invocation held `held`.
ApiReturn(res, held) ==
  /\ response' = res
  /\ apiHeld' = held - 1
  /\ api' = ApiIdle

\* The handler raises before the try block: nothing is held.
ApiRaise ==
  /\ response' = Raised
  /\ api' = ApiIdle
  /\ UNCHANGED apiHeld

ApiOutcomes == {"ok"} \cup (IF faults < MaxFaults THEN {"fail"} ELSE {})

\* The gateway sends a request out of reqs to the idle instance.
ApiInvoke(reqs) ==
  /\ UNCHANGED <<ingestVars, fetcherVars, scraperVars>>
  /\ api.pc = "idle"
  /\ apiQuota > 0
  /\ apiQuota' = apiQuota - 1
  /\ \E req \in reqs :
       api' = [ApiIdle EXCEPT !.pc = "pool", !.method = req.method,
                              !.path = req.path, !.body = req.body,
                              !.qp = IF "qp" \in DOMAIN req THEN req.qp ELSE << >>,
                              !.atEntry = user_preferences]
  /\ response' = NoResponse
  /\ subscribeCalls' = << >>
  /\ UNCHANGED <<apiPool, apiHeld, user_preferences, subscriptions, saved,
                 delivered, faults>>

\* if (!pool): getDbPassword() and new Pool, once per instance.
ApiGetPool ==
  /\ UNCHANGED <<ingestVars, fetcherVars, scraperVars>>
  /\ api.pc = "pool"
  /\ \E o \in {"ok"} \cup (IF ~apiPool /\ faults < MaxFaults THEN {"fail"} ELSE {}) :
       /\ faults' = faults + Injected(o)
       /\ IF o = "ok"
          THEN /\ apiPool' = TRUE
               /\ api' = [api EXCEPT !.pc = "connect"]
               /\ UNCHANGED <<response, apiHeld>>
          ELSE /\ ApiRaise
               /\ UNCHANGED apiPool
  /\ UNCHANGED <<apiQuota, user_preferences, subscriptions, subscribeCalls,
                 saved, delivered>>

\* The digits of a query parameter and their values.
Digit ==
  [a \in {"0", "1", "2", "3", "4", "5", "6", "7", "8", "9"} |->
     CASE a = "0" -> 0 [] a = "1" -> 1 [] a = "2" -> 2 [] a = "3" -> 3
       [] a = "4" -> 4 [] a = "5" -> 5 [] a = "6" -> 6 [] a = "7" -> 7
       [] a = "8" -> 8 [] OTHER -> 9]

RECURSIVE DigitsValue(_, _)
\* The value of the longest run of digits at the start of s, after acc.
DigitsValue(s, acc) ==
  IF s = << >> \/ Head(s) \notin DOMAIN Digit THEN acc
  ELSE DigitsValue(Tail(s), 10 * acc + Digit[Head(s)])

RECURSIVE SkipWs(_)
SkipWs(s) == IF s # << >> /\ Head(s) \in WS THEN SkipWs(Tail(s)) ELSE s

\* parseInt(v, 10) of a string of single-character atoms: leading whitespace,
\* a sign, then the digits up to the first other character; NaN without a
\* digit there, also for undefined.
parseInt(v) ==
  LET t == SkipWs(v)
      signed == t # << >> /\ Head(t) \in {"-", "+"}
      d == IF signed THEN Tail(t) ELSE t
  IN IF d = << >> \/ Head(d) \notin DOMAIN Digit
     THEN [finite |-> FALSE, n |-> 0]
     ELSE [finite |-> TRUE,
           n |-> IF signed /\ Head(t) = "-" THEN 0 - DigitsValue(d, 0)
                 ELSE DigitsValue(d, 0)]

\* parseIntSafe with Number(v) in place of parseInt: the whole text must be
\* a number.
parseWhole(v, d) ==
  LET r == parseInt(v)
      t == SkipWs(v)
      rest == IF t # << >> /\ Head(t) \in {"-", "+"} THEN Tail(t) ELSE t
  IN IF r.finite /\ \A k \in DOMAIN rest : rest[k] \in DOMAIN Digit
     THEN r.n ELSE d

parseIntSafe(v, d) == LET r == parseInt(v) IN IF r.finite THEN r.n ELSE d

\* An allow-list that lets the title through.
SortByTitleToo == {<<"closing_at">>, <<"published_at">>, <<"id">>, <<"title">>}

SORT_WHITELIST == {<<"closing_at">>, <<"published_at">>, <<"id">>}

\* The statement with the limit and offset as parsed, not brought into range.
TendersStatementUnclamped(qp) ==
  [orderBy |-> "closing_at", direction |-> "ASC", nulls |-> "LAST",
   limit |-> parseIntSafe(Get(qp, "limit"), 20),
   offset |-> parseIntSafe(Get(qp, "offset"), 0)]

\* The statement of GET /tenders for the query parameters qp: ORDER BY
\* t.{sort} {order} NULLS LAST LIMIT {limit} OFFSET {offset}.  The requests
\* of the model carry no filter parameter, so there is no WHERE clause.
TendersStatement(qp) ==
  [orderBy |-> IF Get(qp, "sort") \in SORT_WHITELIST THEN Get(qp, "sort")[1]
               ELSE "closing_at",
   direction |-> IF toLowerCase(Or(Get(qp, "order"), <<"asc">>)) = <<"desc">>
                 THEN "DESC" ELSE "ASC",
   nulls |-> "LAST",
   limit |-> Min(Max(parseIntSafe(Get(qp, "limit"), 20), 1), 100),
   offset |-> Max(parseIntSafe(Get(qp, "offset"), 0), 0)]

\* The routes, up to the first query or the return: OPTIONS, GET /tenders,
\* POST /user/preferences with its validation, and the fallback.  The
\* requests of the model name no tender by id.
ApiRoute(held) ==
  IF api.method = "OPTIONS" THEN ApiReturn(ok("{}"), held)
  ELSE IF api.method = "GET" /\ api.path = "/tenders"
  THEN /\ api' = [api EXCEPT !.pc = "count", !.dataSql = TendersStatement(api.qp)]
       /\ apiHeld' = held
       /\ UNCHANGED response
  ELSE IF api.method = "POST" /\ api.path = "/user/preferences"
  THEN IF ~api.body.json THEN ApiReturn(bad(500, "Internal error"), held)
       ELSE LET email == Get(api.body.v, "email")
                isArray == /\ "categories" \in DOMAIN api.body.v
                           /\ api.body.v.categories.t = "arr"
            IN IF ~Truthy(email) \/ ~isArray
               THEN ApiReturn(bad(400, "Email and categories[] required"), held)
               ELSE /\ api' = [api EXCEPT !.pc = "findUser", !.email = email,
                                          !.categories = api.body.v.categories.v]
                    /\ apiHeld' = held
                    /\ UNCHANGED response
  ELSE ApiReturn(bad(404, "Route not found"), held)

\* pool.connect(), before the try block; then the route.
ApiConnect ==
  /\ UNCHANGED <<ingestVars, fetcherVars, scraperVars>>
  /\ api.pc = "connect"
  /\ \E o \in ApiOutcomes :
       /\ faults' = faults + Injected(o)
       /\ IF o = "ok" THEN ApiRoute(apiHeld + 1) ELSE ApiRaise
  /\ UNCHANGED <<apiQuota, apiPool, user_preferences, subscriptions,
                 subscribeCalls, saved, delivered>>

\* The instants of the model's dates, in the order of time.
Instant(v) ==
  CASE v = <<"2025-10-01T07:00:00.000Z">> -> 1
    [] v = <<"2025-10-01T09:00:00.000Z">> -> 2
    [] v = <<"2025-11-15T10:00:00.000Z">> -> 3
    [] v = <<"2025-11-15T12:00:00.000Z">> -> 4
    [] OTHER -> 5

\* Row a comes before row b under ORDER BY t.{orderBy} {direction} NULLS
\* LAST; rows the clause does not tell apart come in the order of their ids,
\* one of the orders the database may choose.
ComesBefore(a, b, sql) ==
  LET col == sql.orderBy
      key(r) == IF col = "id" THEN r.id ELSE Instant(r[col])
  IN IF col # "id" /\ (a[col] = null) # (b[col] = null) THEN b[col] = null
     ELSE IF col # "id" /\ a[col] = null THEN a.id < b.id
     ELSE IF key(a) # key(b)
     THEN IF sql.direction = "DESC" THEN key(a) > key(b) ELSE key(a) < key(b)
     ELSE a.id < b.id

\* The rows the database returns for the statement: table tenders in the
\* order of the clause, OFFSET rows skipped, at most LIMIT rows.
SelectTenders(sql) ==
  LET n == Cardinality(tenders)
      sorted == CHOOSE q \in [1..n -> tenders] :
                  /\ \A i, j \in 1..n : i < j => ComesBefore(q[i], q[j], sql)
      lo == sql.offset + 1
      hi == Min(n, sql.offset + sql.limit)
  IN IF lo > hi THEN << >> ELSE SubSeq(sorted, lo, hi)

RECURSIVE IdsText(_)
\* The rows of a result as JSON text, each row by its id.
IdsText(rows) ==
  IF rows = << >> THEN ""
  ELSE "{\"id\":" \o ToString(Head(rows).id) \o "}"
         \o (IF Len(rows) > 1 THEN "," ELSE "") \o IdsText(Tail(rows))

\* JSON.stringify({total, limit, offset, results}).
TendersBody(total, limit, offset, rows) ==
  "{\"total\":" \o ToString(total) \o ",\"limit\":" \o ToString(limit)
    \o ",\"offset\":" \o ToString(offset)
    \o ",\"results\":[" \o IdsText(rows) \o "]}"

\* SELECT COUNT(*) AS c FROM tenders t.
ApiCount ==
  /\ UNCHANGED <<ingestVars, fetcherVars, scraperVars>>
  /\ api.pc = "count"
  /\ \E o \in ApiOutcomes :
       /\ faults' = faults + Injected(o)
       /\ IF o = "fail" THEN ApiReturn(bad(500, "Internal error"), apiHeld)
          ELSE /\ api' = [api EXCEPT !.pc = "rows", !.total = Cardinality(tenders)]
               /\ UNCHANGED <<response, apiHeld>>
  /\ UNCHANGED <<apiQuota, apiPool, user_preferences, subscriptions,
                 subscribeCalls, saved, delivered>>

\* The data statement, and the 200 with the total, the limit and offset
\* used and the rows.
ApiRows ==
  /\ UNCHANGED <<ingestVars, fetcherVars, scraperVars>>
  /\ api.pc = "rows"
  /\ \E o \in ApiOutcomes :
       /\ faults' = faults + Injected(o)
       /\ IF o = "fail" THEN ApiReturn(bad(500, "Internal error"), apiHeld)
          ELSE ApiReturn(ok(TendersBody(api.total, api.dataSql.limit,
                                        api.dataSql.offset,
                                        SelectTenders(api.dataSql))), apiHeld)
  /\ UNCHANGED <<apiQuota, apiPool, user_preferences, subscriptions,
                 subscribeCalls, saved, delivered>>

\* SELECT id FROM users WHERE email = $1.
ApiFindUser ==
  /\ UNCHANGED <<ingestVars, fetcherVars, scraperVars>>
  /\ api.pc = "findUser"
  /\ \E o \in ApiOutcomes :
       /\ faults' = faults + Injected(o)
       /\ IF o = "fail" THEN ApiReturn(bad(500, "Internal server error"), apiHeld)
          ELSE IF api.email \notin DOMAIN UsersTable
          THEN ApiReturn(bad(404, "User not found"), apiHeld)
          ELSE /\ api' = [api EXCEPT !.pc = "deletePrefs",
                                     !.userId = UsersTable[api.email]]
               /\ UNCHANGED <<response, apiHeld>>
  /\ UNCHANGED <<apiQuota, apiPool, user_preferences, subscriptions,
                 subscribeCalls, saved, delivered>>

\* The save is answered 200: from now on it is the user's saved set.
ApiSavedReturn ==
  /\ ApiReturn(ok("{\"message\":\"Preferences saved & SNS subscriptions created\"}"),
               apiHeld)
  /\ saved' = [saved EXCEPT ![api.email] =
                 {api.categories[i] : i \in 1..Len(api.categories)}]

\* The loop over categories goes on after element i, or the handler returns.
ApiNextCategory(i) ==
  IF i < Len(api.categories)
  THEN /\ api' = [api EXCEPT !.pc = "insertPref", !.i = i + 1]
       /\ UNCHANGED <<response, apiHeld, saved>>
  ELSE ApiSavedReturn

\* The old preferences stay.
KeepsPreferences(uid) == user_preferences

\* DELETE FROM user_preferences WHERE user_id = $1, as the new table.
DeletePreferences(uid) ==
  [r \in {x \in DOMAIN user_preferences : x.user_id # uid} |-> user_preferences[r]]

ApiDeletePrefs ==
  /\ UNCHANGED <<ingestVars, fetcherVars, scraperVars>>
  /\ api.pc = "deletePrefs"
  /\ \E o \in ApiOutcomes :
       /\ faults' = faults + Injected(o)
       /\ IF o = "fail"
          THEN /\ ApiReturn(bad(500, "Internal server error"), apiHeld)
               /\ UNCHANGED <<user_preferences, saved>>
          ELSE /\ user_preferences' = DeletePreferences(api.userId)
               /\ ApiNextCategory(0)
  /\ UNCHANGED <<apiQuota, apiPool, subscriptions, subscribeCalls, delivered>>

\* INSERT INTO user_preferences (user_id, tender_category) for element i.
ApiInsertPref ==
  /\ UNCHANGED <<ingestVars, fetcherVars, scraperVars>>
  /\ api.pc = "insertPref"
  /\ \E o \in ApiOutcomes :
       /\ faults' = faults + Injected(o)
       /\ IF o = "fail"
          THEN /\ ApiReturn(bad(500, "Internal server error"), apiHeld)
               /\ UNCHANGED user_preferences
          ELSE /\ user_preferences' = user_preferences (+)
                    SetToBag({[user_id |-> api.userId,
                               tender_category |-> api.categories[api.i]]})
               /\ api' = [api EXCEPT !.pc = "subscribe"]
               /\ UNCHANGED <<response, apiHeld>>
  /\ UNCHANGED <<apiQuota, apiPool, subscriptions, subscribeCalls, saved,
                 delivered>>

\* A SubscribeCommand whose filter holds the category trimmed and lowercased.
SubscribeCommandNormalized(email, category) ==
  [Protocol |-> "email", Endpoint |-> email,
   category |-> toLowerCase(Trim(category))]

\* The SubscribeCommand for a category: FilterPolicy {category: [category]}.
SubscribeCommand(email, category) ==
  [Protocol |-> "email", Endpoint |-> email, category |-> category]

\* snsClient.send(SubscribeCommand) for element i.  The topic makes the
\* subscription, or the call fails; the topic may also refuse an endpoint
\* that is subscribed with another filter.
ApiSubscribe ==
  /\ UNCHANGED <<ingestVars, fetcherVars, scraperVars>>
  /\ api.pc = "subscribe"
  /\ LET cmd == SubscribeCommand(api.email, api.categories[api.i])
         other == \E x \in subscriptions :
                    x.Endpoint = cmd.Endpoint /\ x.category # cmd.category
     IN /\ subscribeCalls' = Append(subscribeCalls, cmd)
        /\ \E o \in ApiOutcomes \cup (IF other THEN {"refused"} ELSE {}) :
             /\ faults' = faults + (IF o = "ok" THEN 0 ELSE 1)
             /\ IF o = "ok"
                THEN /\ subscriptions' = subscriptions \cup {cmd}
                     /\ ApiNextCategory(api.i)
                ELSE /\ ApiReturn(bad(500, "Internal server error"), apiHeld)
                     /\ UNCHANGED <<subscriptions, saved>>
  /\ UNCHANGED <<apiQuota, apiPool, user_preferences, delivered>>

\* The ingest worker's PublishCommand reaches the topic with the attribute
\* category: the topic delivers to the endpoints whose filter has it.
TopicPublish(category) ==
  /\ UNCHANGED <<ingestVars, fetcherVars, scraperVars>>
  /\ delivered' = delivered \cup
       {[Endpoint |-> x.Endpoint, category |-> category] :
          x \in {y \in subscriptions : y.category = category}}
  /\ delivered' # delivered
  /\ UNCHANGED <<apiQuota, apiPool, api, apiHeld, response, user_preferences,
                 subscriptions, subscribeCalls, saved, faults>>

\* The API instance at rest, nothing saved.
ApiInit ==
  /\ apiPool = FALSE
  /\ api = ApiIdle
  /\ apiHeld = 0
  /\ response = NoResponse
  /\ user_preferences = EmptyBag
  /\ subscriptions = {}
  /\ subscribeCalls = << >>
  /\ saved = [e \in {Ann, Bob} |-> {}]
  /\ delivered = {}

\* No request comes.
ApiAtRest == ApiInit /\ apiQuota = 0

\* ------------------------------------------------------------------ fetcher
\* exports.handler of the eTenders fetcher with fetchPageWithRetry, savePage,
\* processPageSequentially, processPagesInBatch and invokeContinuation.  One
\* action per await; time passes in the requests and the sleeps.

MAX_PAGES == 4
MAX_RUNTIME_MS == 260000
THROTTLE_MS == 3000
maxRetries == 3
PREFIX == "etenders/"

\* The faults that may hit the fetcher (in sequential mode, and in concurrent
\* mode, where the page processes interleave), the requests that may be slow,
\* and the time a request takes (ms): a second, or most of the budget.
MaxPageFaults == 3
MaxBatchFaults == 1
MaxSlow == 1
FaultBudget == IF USE_CONCURRENT THEN MaxBatchFaults ELSE MaxPageFaults
Durations ==
  {1000} \cup (IF Cardinality({r \in requested : r.ms > 1000}) < MaxSlow
               THEN {256000} ELSE {})

\* What the portal answers to a page request: 200 with data, 404, 429,
\* another status or a body that is no object, or a transient failure
\* (connection reset, timeout, 5xx as ERR_BAD_RESPONSE).
Responses ==
  {"200"} \cup (IF pageFaults < FaultBudget
                THEN {"404", "429", "unexpected", "transient"} ELSE {})

FetcherIdle ==
  [pc |-> "idle", inv |-> 0, startPage |-> 0, currentPage |-> 0,
   totalSaved |-> 0, failedPages |-> << >>, pageResults |-> << >>,
   startTime |-> 0, batchEnd |-> 0, concurrent |-> FALSE, procs |-> << >>,
   results |-> << >>]

\* processPageSequentially(page) at its start: attempt 1 of the fetch.
PageStart == [pc |-> "get", attempt |-> 1, success |-> FALSE, detail |-> ""]

\* A page process that ends as a success whatever happened.
PageSucceeds(success, detail) ==
  [pc |-> "done", attempt |-> 0, success |-> TRUE, detail |-> detail]

PageDone(success, detail) ==
  [pc |-> "done", attempt |-> 0, success |-> success, detail |-> detail]

\* The result object of a page process that is done.
PageResult(page, proc) ==
  [success |-> proc.success, page |-> page, detail |-> proc.detail]

\* The tally that counts the saved pages and forgets the failed ones.
TallySavedOnly(g, results) ==
  [g EXCEPT !.pageResults = @ \o results,
            !.totalSaved = @ + Cardinality({k \in DOMAIN results :
                                              results[k].success})]

RECURSIVE Tally(_, _)
\* for (const result of results): count the saved, list the failed.
Tally(g, results) ==
  IF results = << >> THEN g
  ELSE LET r == Head(results)
           g1 == [g EXCEPT !.pageResults = Append(@, r),
                           !.totalSaved = IF r.success THEN @ + 1 ELSE @,
                           !.failedPages = IF r.success THEN @
                                           ELSE Append(@, r.page)]
       IN Tally(g1, Tail(results))

\* The pages of the next await: one page, or in concurrent mode up to three.
NextPages(g, t) ==
  LET elapsed == t - g.startTime
      perPage == IF elapsed = 0 THEN 0
                 ELSE (MAX_RUNTIME_MS - elapsed) * Max(1, g.currentPage - g.startPage)
      pagesWeCanProcess ==
        IF elapsed = 0 THEN Max(1, MAX_RUNTIME_MS \div 10000)
        ELSE Max(1, perPage \div elapsed)
      batchEnd == Min(g.currentPage + pagesWeCanProcess - 1, MAX_PAGES)
  IN [batchEnd |-> batchEnd,
      pages |-> IF USE_CONCURRENT /\ pagesWeCanProcess > 1
                THEN g.currentPage .. Min(g.currentPage + 2, batchEnd)
                ELSE {g.currentPage},
      concurrent |-> USE_CONCURRENT /\ pagesWeCanProcess > 1]

\* The budget checked with >= in place of >.
BudgetReached(elapsed) == elapsed >= MAX_RUNTIME_MS

\* if (elapsed > MAX_RUNTIME_MS)
BudgetExceeded(elapsed) == elapsed > MAX_RUNTIME_MS

\* The head of the while loop at time t with locals g, up to the next await
\* or the return.
LoopHead(g, t) ==
  IF g.currentPage > MAX_PAGES
  THEN /\ returned' = Append(returned,
            [inv |-> g.inv, statusCode |-> 200, message |-> "Processing complete",
             lastPage |-> g.currentPage - 1, totalSaved |-> g.totalSaved,
             failedPages |-> g.failedPages, continuedFrom |-> 0])
       /\ f' = FetcherIdle
  ELSE IF BudgetExceeded(t - g.startTime)
  THEN /\ f' = [g EXCEPT !.pc = "continue"]
       /\ UNCHANGED returned
  ELSE LET n == NextPages(g, t)
       IN /\ f' = [g EXCEPT !.pc = "pages", !.batchEnd = n.batchEnd,
                            !.concurrent = n.concurrent,
                            !.procs = [q \in n.pages |-> PageStart]]
          /\ UNCHANGED returned

\* The await resolves and currentPage stays as it is.
CollectStays(g, procs, t) ==
  LET pages == DOMAIN procs
      first == g.currentPage
      results == [k \in 1..Cardinality(pages) |->
                    PageResult(first + k - 1, procs[first + k - 1])]
      g1 == [g EXCEPT !.procs = << >>]
  IN IF g.concurrent
     THEN LoopHead(Tally(g1, results), t)
     ELSE /\ f' = [g1 EXCEPT !.pc = "throttle", !.results = results]
          /\ UNCHANGED returned

\* The await of the page processes resolves with their results: in sequential
\* mode currentPage++ and the throttle sleep, in concurrent mode the jump and
\* the tally at once.
Collect(g, procs, t) ==
  LET pages == DOMAIN procs
      first == g.currentPage
      results == [k \in 1..Cardinality(pages) |->
                    PageResult(first + k - 1, procs[first + k - 1])]
      g1 == [g EXCEPT !.procs = << >>]
  IN IF g.concurrent
     THEN LoopHead(Tally([g1 EXCEPT !.currentPage = Min(first + 3, g.batchEnd + 1)],
                         results), t)
     ELSE IF first + 1 <= MAX_PAGES
     THEN /\ f' = [g1 EXCEPT !.pc = "throttle", !.currentPage = first + 1,
                             !.results = results]
          /\ UNCHANGED returned
     ELSE LoopHead(Tally([g1 EXCEPT !.currentPage = first + 1], results), t)

\* The await resolves as soon as one page has failed, the pages still in
\* flight being given up (Promise.all in place of Promise.allSettled).
AfterPageFailFast(procs, t) ==
  IF \E q \in DOMAIN procs : procs[q].pc = "done" /\ ~procs[q].success
  THEN Collect(f, [q \in DOMAIN procs |->
                     IF procs[q].pc = "done" THEN procs[q]
                     ELSE PageDone(FALSE, "given up")], t)
  ELSE IF \A q \in DOMAIN procs : procs[q].pc = "done"
  THEN Collect(f, procs, t)
  ELSE /\ f' = [f EXCEPT !.procs = procs]
       /\ UNCHANGED returned

\* A page process has taken a step at time t: the others go on, or the await
\* resolves.
AfterPage(procs, t) ==
  IF \A q \in DOMAIN procs : procs[q].pc = "done"
  THEN Collect(f, procs, t)
  ELSE /\ f' = [f EXCEPT !.procs = procs]
       /\ UNCHANGED returned

\* String(n) of a natural number, digit by digit.
RECURSIVE DecimalDigits(_)
DecimalDigits(n) ==
  IF n < 10 THEN <<n>> ELSE Append(DecimalDigits(n \div 10), n % 10)

\* String(page) with no padding.
Unpadded(page) == DecimalDigits(page)

\* String(page).padStart(4, '0')
PadStart4(page) ==
  LET d == DecimalDigits(page)
  IN IF Len(d) >= 4 THEN d ELSE [k \in 1..(4 - Len(d)) |-> 0] \o d

\* The key of savePage.
Filename(page, timestamp) ==
  <<PREFIX, "etenders-p", PadStart4(page), "-", timestamp, ".json">>

\* The handler starts on an invocation's event.
FetcherInvoke ==
  /\ f.pc = "idle"
  /\ invocations # << >>
  /\ LET ev == Head(invocations)
         startPage == IF ev.startPage = 0 THEN 1 ELSE ev.startPage
         g == [FetcherIdle EXCEPT !.inv = Len(returned) + Len(invocations),
                                  !.startPage = startPage,
                                  !.currentPage = startPage,
                                  !.totalSaved = ev.totalSaved,
                                  !.failedPages = ev.failedPages,
                                  !.startTime = now]
     IN LoopHead(g, now)
  /\ invocations' = Tail(invocations)
  /\ UNCHANGED <<ingestVars, apiVars, scraperVars, faults, USE_CONCURRENT, now, pageFaults,
                 requested, objects>>

\* Every failure is taken for a transient one.
AnyErrorRetriable(o) == o \in {"transient", "unexpected"}

\* isRetriableError: the codes and messages of the transient conditions.
isRetriableError(o) == o = "transient"

\* await axios.get(...) of fetchPageWithRetry for page p, and what follows
\* up to the next await of that page's process.
PageGet(p) ==
  /\ f.pc = "pages"
  /\ p \in DOMAIN f.procs
  /\ f.procs[p].pc = "get"
  /\ \E d \in Durations, o \in Responses :
       LET a == f.procs[p].attempt
           proc == CASE o = "200" -> [f.procs[p] EXCEPT !.pc = "put"]
                     [] o = "404" -> PageDone(FALSE, "No data returned")
                     [] o = "429" -> [f.procs[p] EXCEPT !.pc = "rate"]
                     [] isRetriableError(o) ->
                          IF a < maxRetries
                          THEN [f.procs[p] EXCEPT !.pc = "backoff"]
                          ELSE PageDone(FALSE, o)
                     [] OTHER -> PageDone(FALSE, o)
       IN /\ now' = now + d
          /\ pageFaults' = pageFaults + (IF o = "200" THEN 0 ELSE 1)
          /\ requested' = requested \cup
                 {[inv |-> f.inv, page |-> p, attempt |-> a, response |-> o,
                   ms |-> d]}
          /\ AfterPage([f.procs EXCEPT ![p] = proc], now + d)
  /\ UNCHANGED <<ingestVars, apiVars, scraperVars, faults, USE_CONCURRENT, invocations, objects>>

\* The sleeps of fetchPageWithRetry: attempt * 10 s after a 429, and
\* min(attempt * 5 s, 20 s) after a transient failure.
PageSleep(p) ==
  /\ f.pc = "pages"
  /\ p \in DOMAIN f.procs
  /\ f.procs[p].pc \in {"rate", "backoff"}
  /\ LET a == f.procs[p].attempt
         ms == IF f.procs[p].pc = "rate" THEN a * 10000
               ELSE Min(a * 5000, 20000)
         proc == IF a < maxRetries
                 THEN [f.procs[p] EXCEPT !.pc = "get", !.attempt = a + 1]
                 ELSE PageDone(FALSE, "Failed to fetch page")
     IN /\ now' = now + ms
        /\ AfterPage([f.procs EXCEPT ![p] = proc], now + ms)
  /\ UNCHANGED <<ingestVars, apiVars, scraperVars, faults, USE_CONCURRENT, invocations,
                 pageFaults, requested, objects>>

\* await s3.putObject(...) of savePage for page p.
PagePut(p) ==
  /\ f.pc = "pages"
  /\ p \in DOMAIN f.procs
  /\ f.procs[p].pc = "put"
  /\ \E o \in {"ok"} \cup (IF pageFaults < FaultBudget THEN {"error"} ELSE {}) :
       /\ pageFaults' = pageFaults + (IF o = "ok" THEN 0 ELSE 1)
       /\ objects' = IF o = "ok"
                     THEN objects \cup {[Key |-> Filename(p, now),
                                         Metadata |-> [page |-> p, timestamp |-> now]]}
                     ELSE objects
       /\ AfterPage([f.procs EXCEPT ![p] = PageDone(o = "ok", o)], now)
  /\ UNCHANGED <<ingestVars, apiVars, scraperVars, faults, USE_CONCURRENT, invocations, now,
                 requested>>

\* await sleep(THROTTLE_MS + 1000) between the pages of sequential mode,
\* then the tally of the page's result.
Throttle ==
  /\ f.pc = "throttle"
  /\ now' = now + THROTTLE_MS + 1000
  /\ LoopHead(Tally([f EXCEPT !.results = << >>], f.results),
              now + THROTTLE_MS + 1000)
  /\ UNCHANGED <<ingestVars, apiVars, scraperVars, faults, USE_CONCURRENT, invocations,
                 pageFaults, requested, objects>>

\* A payload that starts the crawl over from the invocation's first page.
RestartPayload(g) ==
  [startPage |-> g.startPage, totalSaved |-> g.totalSaved,
   failedPages |-> g.failedPages]

\* The payload of invokeContinuation(nextPage, totalSaved, failedPages).
ContinuationPayload(g) ==
  [startPage |-> g.currentPage, totalSaved |-> g.totalSaved,
   failedPages |-> g.failedPages]

\* The hand-over that reports a failed self-invocation with a 500.
ContinuationReports ==
  /\ f.pc = "continue"
  /\ \E o \in {"ok"} \cup (IF pageFaults < FaultBudget THEN {"error"} ELSE {}) :
       /\ pageFaults' = pageFaults + (IF o = "ok" THEN 0 ELSE 1)
       /\ invocations' = IF o = "ok"
                         THEN Append(invocations, ContinuationPayload(f))
                         ELSE invocations
       /\ returned' = Append(returned,
            [inv |-> f.inv, statusCode |-> IF o = "ok" THEN 200 ELSE 500,
             message |-> IF o = "ok" THEN "Continuation invoked before timeout"
                         ELSE "Continuation failed",
             lastPage |-> f.currentPage - 1, totalSaved |-> f.totalSaved,
             failedPages |-> f.failedPages, continuedFrom |-> f.currentPage])
  /\ f' = FetcherIdle
  /\ UNCHANGED <<ingestVars, apiVars, scraperVars, faults, USE_CONCURRENT, now, requested, objects>>

\* await invokeContinuation(...): the asynchronous self-invocation, which
\* may fail, and the return that follows either way.
Continuation ==
  /\ f.pc = "continue"
  /\ \E o \in {"ok"} \cup (IF pageFaults < FaultBudget THEN {"error"} ELSE {}) :
       /\ pageFaults' = pageFaults + (IF o = "ok" THEN 0 ELSE 1)
       /\ invocations' = IF o = "ok"
                         THEN Append(invocations, ContinuationPayload(f))
                         ELSE invocations
  /\ returned' = Append(returned,
        [inv |-> f.inv, statusCode |-> 200,
         message |-> "Continuation invoked before timeout",
         lastPage |-> f.currentPage - 1, totalSaved |-> f.totalSaved,
         failedPages |-> f.failedPages, continuedFrom |-> f.currentPage])
  /\ f' = FetcherIdle
  /\ UNCHANGED <<ingestVars, apiVars, scraperVars, faults, USE_CONCURRENT, now, requested, objects>>

\* The first event: a scheduled invocation with no startPage.
FirstEvent == [startPage |-> 0, totalSaved |-> 0, failedPages |-> << >>]

FetcherInit(mode) ==
  /\ USE_CONCURRENT = mode
  /\ invocations = <<FirstEvent>>
  /\ f = FetcherIdle
  /\ now = 0
  /\ pageFaults = 0
  /\ requested = {}
  /\ objects = {}
  /\ returned = << >>

\* No fetcher invocation is pending.
FetcherAtRest ==
  /\ USE_CONCURRENT = FALSE
  /\ invocations = << >>
  /\ f = FetcherIdle
  /\ now = 0
  /\ pageFaults = 0
  /\ requested = {}
  /\ objects = {}
  /\ returned = << >>

\* ----------------------------------------------------------------- scrapers
\* lambdaHandler of the Eskom scraper and of the SANRAL scraper: a browser
\* is launched, the listing pages and the detail pages are read, the tenders
\* are put in the store as one object, and the browser is closed in the
\* finally block.  One action per await or run of awaits that fail alike.

BUCKET_NAME == "tender-scraper-bucket"

\* The listing pages a scraper reads at most (50 for Eskom), and the tenders
\* a listing page may show.
MaxListingPages == 2
MaxPerPage == 1

ScraperIdle ==
  [pc |-> "idle", source |-> "", browser |-> FALSE, pageNumber |-> 0,
   found |-> 0, total |-> 0, pending |-> [statusCode |-> 0, body |-> << >>]]

\* The key of the object: {source}/{source}-{timestamp}.json, the timestamp
\* being that of the invocation.
ScraperKey(source, timestamp) ==
  <<source \o "/", source \o "-", timestamp, ".json">>

\* The response of a run that saved its object.
ScrapedResponse(total, key) ==
  [statusCode |-> 200,
   body |-> [message |-> "Scraping successful and saved to S3", total |-> total,
             file |-> <<BUCKET_NAME, "/">> \o key]]

\* The response of the catch block.
ScraperError(step) ==
  [statusCode |-> 500, body |-> [error |-> step]]

ScraperOutcomes == {"ok"} \cup (IF faults < MaxFaults THEN {"fail"} ELSE {})

\* A step inside the try block failed: the catch block makes the 500, and
\* the finally block follows, which closes the browser if there is one.
ScraperCatch(step) ==
  IF sc.browser
  THEN /\ sc' = [sc EXCEPT !.pc = "close", !.pending = ScraperError(step)]
       /\ UNCHANGED scraperReturned
  ELSE /\ sc' = ScraperIdle
       /\ scraperReturned' = Append(scraperReturned, ScraperError(step))

ScraperInvoke ==
  /\ sc.pc = "idle"
  /\ scrapeQuota > 0
  /\ scrapeQuota' = scrapeQuota - 1
  /\ \E source \in {"eskom", "sanral"} :
       sc' = [ScraperIdle EXCEPT !.pc = "launch", !.source = source]
  /\ UNCHANGED <<ingestVars, apiVars, fetcherVars, faults, scraped, scraperReturned>>

\* chromium.executablePath() and puppeteer.launch().
ScraperLaunch ==
  /\ sc.pc = "launch"
  /\ \E o \in ScraperOutcomes :
       /\ faults' = faults + Injected(o)
       /\ IF o = "ok"
          THEN /\ sc' = [sc EXCEPT !.pc = "goto", !.browser = TRUE, !.pageNumber = 1]
               /\ UNCHANGED scraperReturned
          ELSE ScraperCatch("launch")
  /\ UNCHANGED <<ingestVars, apiVars, fetcherVars, scrapeQuota, scraped>>

\* browser.newPage() and page.goto() of a listing page; for SANRAL also the
\* waits for the table and the read of the page count.
ScraperGoto ==
  /\ sc.pc = "goto"
  /\ \E o \in ScraperOutcomes :
       /\ faults' = faults + Injected(o)
       /\ IF o = "ok"
          THEN /\ sc' = [sc EXCEPT !.pc = IF sc.source = "eskom" THEN "wait"
                                          ELSE "evaluate"]
               /\ UNCHANGED scraperReturned
          ELSE ScraperCatch("goto")
  /\ UNCHANGED <<ingestVars, apiVars, fetcherVars, scrapeQuota, scraped>>

\* Eskom: page.waitForSelector("ul > li > article"); a timeout ends the
\* listing and is no failure.
ScraperWait ==
  /\ sc.pc = "wait"
  /\ \E o \in ScraperOutcomes :
       /\ faults' = faults + Injected(o)
       /\ sc' = [sc EXCEPT !.pc = IF o = "ok" THEN "evaluate" ELSE "put"]
  /\ UNCHANGED <<ingestVars, apiVars, fetcherVars, scrapeQuota, scraped,
                 scraperReturned>>

\* page.evaluate() of a listing page: the tenders it shows.  Eskom reads
\* the details of a page's tenders before the next listing page; SANRAL
\* clicks through all its listing pages first.
ScraperEvaluate ==
  /\ sc.pc = "evaluate"
  /\ \E o \in ScraperOutcomes, n \in 0..MaxPerPage :
       /\ faults' = faults + Injected(o)
       /\ IF o = "ok"
          THEN /\ sc' = IF sc.source = "eskom"
                        THEN [sc EXCEPT !.pc = "details", !.found = n]
                        ELSE [sc EXCEPT !.pc = IF sc.pageNumber + 1 > MaxListingPages
                                               THEN "details" ELSE "evaluate",
                                        !.total = sc.total + n,
                                        !.pageNumber = sc.pageNumber + 1]
               /\ UNCHANGED scraperReturned
          ELSE ScraperCatch("evaluate")
  /\ UNCHANGED <<ingestVars, apiVars, fetcherVars, scrapeQuota, scraped>>

\* The detail pages.  Eskom: a detail page that fails is logged and skipped
\* (outcome "skip"), a failure to open or close the detail page fails the
\* run, and the listing ends on an empty page or after the last page
\* allowed.  SANRAL: a detail page that fails fails the run.
ScraperDetails ==
  /\ sc.pc = "details"
  /\ \E o \in ScraperOutcomes \cup
              (IF faults < MaxFaults /\ sc.source = "eskom" /\ sc.found > 0
               THEN {"skip"} ELSE {}) :
       /\ faults' = faults + (IF o = "ok" THEN 0 ELSE 1)
       /\ IF o = "fail" THEN ScraperCatch("details")
          ELSE /\ UNCHANGED scraperReturned
               /\ sc' = IF sc.source = "sanral"
                        THEN [sc EXCEPT !.pc = "put"]
                        ELSE [sc EXCEPT !.pc = IF sc.found = 0
                                                  \/ sc.pageNumber + 1 > MaxListingPages
                                               THEN "put" ELSE "goto",
                                        !.total = sc.total + sc.found,
                                        !.pageNumber = sc.pageNumber + 1]
  /\ UNCHANGED <<ingestVars, apiVars, fetcherVars, scrapeQuota, scraped>>

\* s3.send(PutObjectCommand) and the 200 that follows it.
ScraperPut ==
  /\ sc.pc = "put"
  /\ LET key == ScraperKey(sc.source, Len(scraperReturned) + 1)
     IN \E o \in ScraperOutcomes :
          /\ faults' = faults + Injected(o)
          /\ IF o = "ok"
             THEN /\ scraped' = scraped (+) SetToBag({[Bucket |-> BUCKET_NAME,
                                                       Key |-> key]})
                  /\ sc' = [sc EXCEPT !.pc = "close",
                                      !.pending = ScrapedResponse(sc.total, key)]
             ELSE /\ sc' = [sc EXCEPT !.pc = "close", !.pending = ScraperError("put")]
                  /\ UNCHANGED scraped
  /\ UNCHANGED <<ingestVars, apiVars, fetcherVars, scrapeQuota, scraperReturned>>

\* The handler raises instead of returning.
ScraperRaised == [statusCode |-> 0, body |-> [error |-> "raised"]]

\* finally: await browser.close(); then the pending response is returned,
\* unless the close fails.
ScraperClose ==
  /\ sc.pc = "close"
  /\ \E o \in ScraperOutcomes :
       /\ faults' = faults + Injected(o)
       /\ scraperReturned' =
            Append(scraperReturned, IF o = "ok" THEN sc.pending ELSE ScraperRaised)
  /\ sc' = ScraperIdle
  /\ UNCHANGED <<ingestVars, apiVars, fetcherVars, scrapeQuota, scraped>>

ScraperInit ==
  /\ sc = ScraperIdle
  /\ scraped = EmptyBag
  /\ scraperReturned = << >>

\* No scraper runs.
ScraperAtRest == ScraperInit /\ scrapeQuota = 0

\* ----------------------------------------------------------- specifications

MaxRecords == 2

Seqs(S, n) == UNION {[1..m -> S] : m \in 0..n}

\* The events over the keys K: one message of up to MaxRecords notifications,
\* or one notification after a message whose body is not JSON.
Events(K) ==
  {<<Msg(ks)>> : ks \in Seqs(K, MaxRecords)}
    \cup {<<BadMsg, Msg(<<k>>)>> : k \in K}

IngestInitOn(ev, q, T) ==
  /\ event = ev
  /\ quota = q
  /\ faults = 0
  /\ pool = [w \in Workers |-> FALSE]
  /\ sourceIdCache = [w \in Workers |-> {}]
  /\ h = [w \in Workers |-> Idle]
  /\ toPublish = [w \in Workers |-> << >>]
  /\ totalProcessed = [w \in Workers |-> 0]
  /\ result = [w \in Workers |-> "none"]
  /\ failedAt = [w \in Workers |-> {}]
  /\ raises = 0
  /\ rowsDone = [w \in Workers |-> 0]
  /\ attempts = [w \in Workers |-> 0]
  /\ client = [w \in Workers |-> Released]
  /\ tenders = T
  /\ documents = EmptyBag
  /\ contacts = EmptyBag
  /\ tenderSeq = Cardinality(T)
  /\ clock = 0
  /\ writer = << >>
  /\ published = EmptyBag

\* The worker at rest on an empty store.
IngestInit(ev, q) == IngestInitOn(ev, q, {})

InitWith(ev, q) ==
  IngestInit(ev, q) /\ ApiAtRest /\ FetcherAtRest /\ ScraperAtRest

\* One worker instance, to which the queue delivers the event again and again.
Init ==
  \E ev \in Events({KeyA, KeyB, KeyP, KeyBad}) :
    InitWith(ev, [w \in Workers |-> IF w = "w1" THEN MaxDeliveries ELSE 0])

Next ==
  \E w \in Workers :
    \/ Invoke(w)
    \/ GetPool(w)
    \/ Connect(w)
    \/ Fetch(w)
    \/ Begin(w)
    \/ SourceLookup(w)
    \/ Upsert(w)
    \/ DeleteDocuments(w)
    \/ InsertDocument(w)
    \/ DeleteContacts(w)
    \/ InsertContact(w)
    \/ Commit(w)
    \/ Rollback(w)
    \/ Publish(w)

Spec == Init /\ [][Next]_vars

\* One delivery of an event with two objects, one of them large.
InitCap ==
  InitWith(<<Msg(<<KeyP, KeyBig>>)>>,
           [w \in Workers |-> IF w = "w1" THEN 1 ELSE 0])

SpecCap == InitCap /\ [][Next]_vars

\* Two worker instances, each delivered the event once: the deliveries
\* overlap in every way.  The events name an Eskom object, an eTenders
\* object with the same external id, both, or one object twice.
InitConc ==
  \E ev \in {<<Msg(<<KeyB>>)>>, <<Msg(<<KeyP>>)>>, <<Msg(<<KeyB, KeyP>>)>>,
             <<BadMsg, Msg(<<KeyB, KeyB>>)>>} :
    InitWith(ev, [w \in Workers |-> 1])

SpecConc == InitConc /\ [][Next]_vars

\* Two worker instances, each delivered once an event of two objects that
\* hold different items for one key: the Eskom tender T-1 with one download
\* link and with another, or the eTenders tender T-1 as it is and as an RFQ.
InitRace ==
  \E ev \in {<<Msg(<<KeyA, KeyB>>)>>, <<Msg(<<KeyP, KeyG>>)>>} :
    InitWith(ev, [w \in Workers |-> 1])

SpecRace == InitRace /\ [][Next]_vars

\* One delivery of an event with notifications the handler skips: a message
\* whose body is not JSON, an object that is not JSON, a key of no source, an
\* object with no items; an object with items comes before or after.
SkipKeys == {KeyBad, KeyMisc, KeyEmpty}

AllSkips == <<BadMsg, Msg(<<KeyBad, KeyMisc, KeyEmpty, KeyP>>)>>

InitSkip ==
  \E ev \in {AllSkips} \cup {<<Msg(<<k, KeyP>>)>> : k \in SkipKeys}
              \cup {<<Msg(<<KeyP, k>>)>> : k \in SkipKeys} :
    InitWith(ev, [w \in Workers |-> IF w = "w1" THEN 1 ELSE 0])

SpecSkip == InitSkip /\ [][Next]_vars

\* One delivery of an event with an object of each of the four sources.
InitDispatch ==
  \E ev \in {<<Msg(<<k>>)>> : k \in {KeyA, KeyP, KeySanral, KeyTransnet}}
              \cup {<<Msg(<<KeyP, KeySanral>>)>>, <<Msg(<<KeyTransnet, KeyA>>)>>} :
    InitWith(ev, [w \in Workers |-> IF w = "w1" THEN 1 ELSE 0])

SpecDispatch == InitDispatch /\ [][Next]_vars

\* One delivery of an event whose objects hold records without the portal's
\* reference.
InitNoId ==
  \E ev \in {<<Msg(<<KeyA>>)>>, <<Msg(<<KeyQ>>)>>, <<Msg(<<KeyA, KeyQ>>)>>,
             <<Msg(<<KeyP, KeyQ>>)>>} :
    InitWith(ev, [w \in Workers |-> IF w = "w1" THEN 1 ELSE 0])

SpecNoId == InitNoId /\ [][Next]_vars

\* One delivery of an event whose objects hold records with equal hashes.
InitHash ==
  \E ev \in {<<Msg(<<KeyH>>)>>, <<Msg(<<KeyG>>)>>, <<Msg(<<KeyH, KeyG>>)>>,
             <<Msg(<<KeyP, KeyG>>)>>} :
    InitWith(ev, [w \in Workers |-> IF w = "w1" THEN 1 ELSE 0])

SpecHash == InitHash /\ [][Next]_vars

\* One delivery of an event whose tenders have a category with blanks around
\* it, a blank category, a category in mixed case, or none.
InitCategory ==
  \E ev \in {<<Msg(<<KeyC>>)>>, <<Msg(<<KeyP>>)>>, <<Msg(<<KeyC, KeyP>>)>>} :
    InitWith(ev, [w \in Workers |-> IF w = "w1" THEN 1 ELSE 0])

SpecCategory == InitCategory /\ [][Next]_vars

\* The requests: saves of category lists (empty, one, two, one twice) for a
\* user and for an email without user, invalid bodies, and OPTIONS.
MaxRequests == 2

Categories == {<<"it">>, <<"civil">>}

CategoryLists ==
  {<< >>} \cup {<<c>> : c \in Categories}
    \cup {<<c, d>> : c \in Categories, d \in Categories}

PreferenceRequests ==
  {[method |-> "POST", path |-> "/user/preferences", body |-> b] :
     b \in {Body([email |-> Ann, categories |-> Array(L)]) : L \in CategoryLists}
           \cup {Body([email |-> Bob, categories |-> Array(<<<<"it">>>>)]),
                 Body([categories |-> Array(<<<<"it">>>>)]),
                 Body([email |-> Ann]),
                 Body([email |-> Ann, categories |-> NotAnArray]),
                 NotJson}}

ApiRequests ==
  PreferenceRequests
    \cup {[method |-> "OPTIONS", path |-> "/tenders", body |-> NotJson],
          [method |-> "GET", path |-> "/tenders", body |-> NotJson,
           qp |-> [limit |-> <<"7">>]],
          [method |-> "DELETE", path |-> "/tenders", body |-> NotJson]}

\* The API instance serves MaxRequests requests, one after the other, while
\* the topic receives publishes of any category; no ingest event comes.
InitApi ==
  /\ IngestInit(<< >>, [w \in Workers |-> 0])
  /\ ApiInit
  /\ apiQuota = MaxRequests
  /\ FetcherAtRest
  /\ ScraperAtRest

NextApi ==
  \/ ApiInvoke(ApiRequests)
  \/ ApiGetPool
  \/ ApiConnect
  \/ ApiFindUser
  \/ ApiDeletePrefs
  \/ ApiInsertPref
  \/ ApiSubscribe
  \/ ApiCount
  \/ ApiRows
  \/ \E c \in Categories : TopicPublish(c)

SpecApi == InitApi /\ [][NextApi]_vars

\* An instance of the ingest worker, delivered MaxDeliveries times an event
\* of one eTenders object, and the API instance serving MaxRequests requests:
\* a preflight, a save of one category, a save whose body is not JSON, a
\* save without categories, a listing and a route that does not exist.
InstanceRequests ==
  {[method |-> "OPTIONS", path |-> "/tenders", body |-> NotJson],
   [method |-> "POST", path |-> "/user/preferences",
    body |-> Body([email |-> Ann, categories |-> Array(<<<<"it">>>>)])],
   [method |-> "POST", path |-> "/user/preferences", body |-> NotJson],
   [method |-> "POST", path |-> "/user/preferences",
    body |-> Body([email |-> Ann])],
   [method |-> "GET", path |-> "/tenders", body |-> NotJson,
    qp |-> [limit |-> <<"7">>]],
   [method |-> "DELETE", path |-> "/tenders", body |-> NotJson]}

InitInstances ==
  /\ IngestInit(<<Msg(<<KeyP>>)>>,
                [w \in Workers |-> IF w = "w1" THEN MaxDeliveries ELSE 0])
  /\ ApiInit
  /\ apiQuota = MaxRequests
  /\ FetcherAtRest
  /\ ScraperAtRest

NextInstances ==
  \/ Next
  \/ ApiInvoke(InstanceRequests)
  \/ ApiGetPool
  \/ ApiConnect
  \/ ApiFindUser
  \/ ApiDeletePrefs
  \/ ApiInsertPref
  \/ ApiSubscribe
  \/ ApiCount
  \/ ApiRows

SpecInstances == InitInstances /\ [][NextInstances]_vars

\* The ingest worker is delivered once an event of one object (Eskom records
\* whose category has blanks and upper case, is blank or is absent; or
\* eTenders records of category Civil) while the API instance serves
\* MaxRequests saves of the user's categories: as the messages carry them,
\* in upper case, or with blanks around.  The topic delivers each message it
\* accepted to the subscriptions whose filter has its attribute.
FilterCategories ==
  {<<"it">>, <<"IT">>, <<" ", "it", " ">>, <<"Civil">>, <<"civil">>}

FilterRequests ==
  {[method |-> "POST", path |-> "/user/preferences",
    body |-> Body([email |-> Ann, categories |-> Array(L)])] :
     L \in {<<c>> : c \in FilterCategories} \cup {<<<<"IT">>, <<"eskom">>>>}}

InitFilter ==
  /\ \E ev \in {<<Msg(<<KeyC>>)>>, <<Msg(<<KeyP>>)>>} :
       IngestInit(ev, [w \in Workers |-> IF w = "w1" THEN 1 ELSE 0])
  /\ ApiInit
  /\ apiQuota = MaxRequests
  /\ FetcherAtRest
  /\ ScraperAtRest

TopicDelivers ==
  \E m \in BagToSet(published) : TopicPublish(m.MessageAttributes.category)

NextFilter ==
  \/ Next
  \/ ApiInvoke(FilterRequests)
  \/ ApiGetPool
  \/ ApiConnect
  \/ ApiFindUser
  \/ ApiDeletePrefs
  \/ ApiInsertPref
  \/ ApiSubscribe
  \/ TopicDelivers

SpecFilter == InitFilter /\ [][NextFilter]_vars

\* Three tenders ingested before: two with dates, one without.
StoredTenders ==
  {TenderRow(normalizeEskomRecord(EskomT1).tender, 1, 1, 0),
   TenderRow(normalizeEtendersRecord(EtendersT1).tender, 2, 2, 0),
   TenderRow(normalizeEskomRecord(EskomE2).tender, 3, 1, 0)}

\* Values of the query parameters of GET /tenders, null for an absent one;
\* limit and offset are written character by character.
SortValues ==
  {null, <<"closing_at">>, <<"published_at">>, <<"id">>, <<"ID">>, <<"title">>}
OrderValues ==
  {null, EmptyStr, <<"desc">>, <<"DESC">>, <<"Desc">>, <<"asc">>, <<"ASC">>,
   <<"descending">>}
LimitValues ==
  {null, EmptyStr, <<"a", "b", "c">>, <<"-", "5">>, <<"0">>, <<"2">>, <<"7">>,
   <<"1", "0", "0">>, <<"1", "0", "1">>, <<"1", "2", "a", "b", "c">>,
   <<" ", "3">>, <<"2", ".", "9">>}
OffsetValues ==
  {null, <<"x">>, <<"-", "1">>, <<"0">>, <<"1">>, <<"5">>, <<"1", "x">>}

QueryRequests ==
  {[method |-> "GET", path |-> "/tenders", body |-> NotJson,
    qp |-> [sort |-> so, order |-> o, limit |-> l, offset |-> off]] :
     so \in SortValues, o \in OrderValues, l \in LimitValues, off \in OffsetValues}

\* The API instance serves GET /tenders requests over the stored tenders.
InitQuery ==
  /\ IngestInitOn(<< >>, [w \in Workers |-> 0], StoredTenders)
  /\ ApiInit
  /\ apiQuota = MaxRequests
  /\ FetcherAtRest
  /\ ScraperAtRest

NextQuery ==
  \/ ApiInvoke(QueryRequests)
  \/ ApiGetPool
  \/ ApiConnect
  \/ ApiCount
  \/ ApiRows

SpecQuery == InitQuery /\ [][NextQuery]_vars

\* The fetcher alone, in either mode, from a scheduled invocation.
InitFetcher ==
  /\ IngestInit(<< >>, [w \in Workers |-> 0])
  /\ ApiAtRest
  /\ \E mode \in BOOLEAN : FetcherInit(mode)
  /\ ScraperAtRest

NextFetcher ==
  \/ FetcherInvoke
  \/ \E p \in 1..MAX_PAGES : PageGet(p)
  \/ \E p \in 1..MAX_PAGES : PageSleep(p)
  \/ \E p \in 1..MAX_PAGES : PagePut(p)
  \/ Throttle
  \/ Continuation

SpecFetcher == InitFetcher /\ [][NextFetcher]_vars

\* The same with the runtime's guarantee: an await that can resolve does,
\* and a pending asynchronous invocation is started.
SpecFetcherLive == SpecFetcher /\ WF_vars(NextFetcher)

\* The scrapers alone: MaxScrapes invocations, one after the other.
MaxScrapes == 2

InitScraper ==
  /\ IngestInit(<< >>, [w \in Workers |-> 0])
  /\ ApiAtRest
  /\ FetcherAtRest
  /\ ScraperInit
  /\ scrapeQuota = MaxScrapes

NextScraper ==
  \/ ScraperInvoke
  \/ ScraperLaunch
  \/ ScraperGoto
  \/ ScraperWait
  \/ ScraperEvaluate
  \/ ScraperDetails
  \/ ScraperPut
  \/ ScraperClose

SpecScraper == InitScraper /\ [][NextScraper]_vars

\* ------------------------------------------------------------------- claims

Core(r) == [c \in CoreColumns |-> r[c]]

RECURSIVE BagOfSeq(_)
BagOfSeq(s) ==
  IF s = << >> THEN EmptyBag ELSE SetToBag({Head(s)}) (+) BagOfSeq(Tail(s))

RowsOf(bag, id) == [r \in {x \in DOMAIN bag : x.tender_id = id} |-> bag[r]]

DocumentRows(id, it) ==
  BagOfSeq([i \in 1..Len(it.documents) |-> DocumentRow(id, it.documents[i])])

ContactRows(id, it) ==
  BagOfSeq([i \in 1..Len(it.contacts) |-> ContactRow(id, it.contacts[i])])

RowStatements == {"upsert", "delDocs", "insDoc", "delContacts", "insContact"}

\* C1 (as claimed): every message the topic accepted names a tender row that
\* is committed; no message is published for a tender whose transaction was
\* rolled back or aborted.
PublishAfterCommit ==
  \A m \in BagToSet(published) : \E r \in tenders : r.id = m.Message.tenderId

\* C2: in every committed state each tender row, its documents and its
\* contacts are those of one ingest item, the one that last wrote the row,
\* also after a statement of a row failed midway and the handler went on to
\* COMMIT; and no child row is left without its tender.
ChildrenAtomicWithParent ==
  /\ \A r \in tenders :
       /\ r.id \in DOMAIN writer
       /\ Core(r) = writer[r.id].tender
       /\ RowsOf(documents, r.id) = DocumentRows(r.id, writer[r.id])
       /\ RowsOf(contacts, r.id) = ContactRows(r.id, writer[r.id])
  /\ \A d \in DOMAIN documents \cup DOMAIN contacts :
       \E r \in tenders : r.id = d.tender_id

\* C2 witness: a handler returned after a child statement of a row had failed
\* (an upsert succeeded whose row did not end), with tenders and documents
\* committed.
ChildrenAtomicWitness ==
  \E w \in Workers :
    /\ result[w] = "ok"
    /\ totalProcessed[w] > rowsDone[w]
    /\ \E r \in tenders : RowsOf(documents, r.id) # EmptyBag

\* The row the upsert of worker w is about, as its transaction sees it, when
\* that row already holds the columns of the item: the same record again.
SameRecordRows(w) ==
  {r \in ViewTenders(client[w]) :
     /\ r.source_id = h[w].sourceId
     /\ Core(r) = h[w].items[h[w].ii].tender}

KeyRows(rows, sid, ext) ==
  {r \in rows : r.source_id = sid /\ r.external_id = ext}

ChildReplacement ==
  [][\A w \in Workers :
       (h[w].pc = "commit" /\ client[w].tx = "open" /\ tenders' # tenders) =>
         \A id \in DOMAIN client[w].wW :
           LET it == client[w].wW[id]
           IN /\ RowsOf(documents, id) # DocumentRows(id, it)
                   => RowsOf(documents', id) = DocumentRows(id, it)
              /\ RowsOf(contacts, id) # ContactRows(id, it)
                   => RowsOf(contacts', id) = ContactRows(id, it)]_vars

\* C4 witness: the event re-ingested T-1 with another download link, the
\* invocation ran without a failure, and the stored document is the new one.
ChildReplacementWitness ==
  /\ event = <<Msg(<<KeyA, KeyB>>)>>
  /\ result["w1"] = "ok"
  /\ failedAt["w1"] = {}
  /\ \E r \in tenders :
       RowsOf(documents, r.id)
         = SetToBag({DocumentRow(r.id, [url |-> <<"https://x/NewZip">>,
                                        name |-> null, mime_type |-> null,
                                        published_at |-> null])})

\* C5 (as claimed): a failing row does not abort its batch: once the handler
\* is past the COMMIT of a batch, every item of it whose upsert and child
\* replacement succeeded (whose intent was queued) is committed.
RowFailureIsolated ==
  \A w \in Workers :
    (h[w].pc \in {"fetch", "publish"} \/ result[w] = "ok") =>
      \A i \in 1..Len(toPublish[w]) :
        \E r \in tenders : r.id = toPublish[w][i].tenderId

\* The items of the object under a key, each with the id of its source; none
\* when the notification is skipped.
ItemsOfKey(key) ==
  LET body == Bucket(key)
      source == detectSource(key)
  IN IF body.json /\ source # null /\ NormalizerDefined(source)
     THEN LET its == normalize(source, body.raw)
          IN [i \in 1..Len(its) |-> [sid |-> SourcesTable(source), item |-> its[i]]]
     ELSE << >>

RECURSIVE ItemsOfKeys(_)
ItemsOfKeys(keys) ==
  IF keys = << >> THEN << >>
  ELSE ItemsOfKey(Head(keys)) \o ItemsOfKeys(Tail(keys))

RECURSIVE EventItems(_)
\* The items of an event in the order a failure-free run upserts them.
EventItems(ev) ==
  IF ev = << >> THEN << >>
  ELSE (IF Head(ev).json THEN ItemsOfKeys(Head(ev).Records) ELSE << >>)
         \o EventItems(Tail(ev))

RECURSIVE Batches(_)
\* The transactions a failure-free run of the keys begins (objects of at most
\* BATCH_SIZE items).
Batches(keys) ==
  IF keys = << >> THEN 0
  ELSE (IF ItemsOfKey(Head(keys)) # << >> THEN 1 ELSE 0) + Batches(Tail(keys))

RECURSIVE EventBatches(_)
EventBatches(ev) ==
  IF ev = << >> THEN 0
  ELSE (IF Head(ev).json THEN Batches(Head(ev).Records) ELSE 0)
         + EventBatches(Tail(ev))

\* The store one failure-free processing of the event leaves, from the empty
\* store: one row per (source_id, external_id), written by the last item of
\* the event with that key, with that item's documents and contacts.
IsFailureFreeStore(ev) ==
  LET all == EventItems(ev)
      keyOf(i) == <<all[i].sid, all[i].item.tender.external_id>>
      keys == {keyOf(i) : i \in 1..Len(all)}
      last(k) == all[CHOOSE i \in 1..Len(all) :
                       keyOf(i) = k /\ \A j \in 1..Len(all) : keyOf(j) = k => j <= i].item
  IN /\ {<<r.source_id, r.external_id>> : r \in tenders} = keys
     /\ Cardinality(tenders) = Cardinality(keys)
     /\ \A r \in tenders :
          LET it == last(<<r.source_id, r.external_id>>)
          IN /\ Core(r) = it.tender
             /\ RowsOf(documents, r.id) = DocumentRows(r.id, it)
             /\ RowsOf(contacts, r.id) = ContactRows(r.id, it)
     /\ \A d \in DOMAIN documents \cup DOMAIN contacts :
          \E r \in tenders : r.id = d.tender_id

\* C7: whatever invocations of the event failed before, when a delivery of it
\* is processed to completion without a failure (of anything but a publish)
\* the committed tenders, documents and contacts are those of one
\* failure-free processing, last_seen_at and the generated ids apart.
RedeliverySafe ==
  \A w \in Workers :
    (result[w] = "ok" /\ failedAt[w] \subseteq {"publish"}
       /\ \A v \in Workers \ {w} : h[v].pc = "idle" /\ result[v] = "none")
      => IsFailureFreeStore(event)

\* C7 witness: an invocation raised after it had begun two more transactions
\* than a failure-free run begins before the last one, so after a COMMIT of
\* its own, and the redelivery then ran to completion without a failure.
RedeliverySafeWitness ==
  /\ result["w1"] = "ok"
  /\ failedAt["w1"] = {}
  /\ raises = 1
  /\ faults = 1
  /\ clock >= EventBatches(event) + 2

OutsideRowGuard == {"fetch", "begin", "source", "commit"}

\* C9: once the object fetch, BEGIN, the source lookup or COMMIT has failed in
\* an invocation, the handler is at its ROLLBACK or has raised, never
\* returned, and it has made no publish call.
TransientErrorsRaised ==
  \A w \in Workers :
    failedAt[w] \cap OutsideRowGuard # {} =>
      /\ h[w].pc = "rollback" \/ (h[w].pc = "idle" /\ result[w] = "raised")
      /\ attempts[w] = 0

\* C9 witness: COMMIT failed with intents queued, and the handler raised.
TransientErrorsWitness ==
  \E w \in Workers :
    /\ "commit" \in failedAt[w]
    /\ result[w] = "raised"
    /\ toPublish[w] # << >>

\* C10: a publish call, failed or not, leaves the committed tables as they
\* are and is followed by the call for the next intent or, after the last
\* one, by the return of {ok: true}; an invocation in which a publish failed
\* and which ended has returned ok with one call made per intent.
PublishFailureNonFatal ==
  /\ [](\A w \in Workers :
          ("publish" \in failedAt[w] /\ h[w].pc = "idle") =>
            result[w] = "ok" /\ attempts[w] = Len(toPublish[w]))
  /\ [][\A w \in Workers :
          (h[w].pc = "publish" /\ attempts'[w] # attempts[w]) =>
            /\ UNCHANGED db
            /\ IF h[w].pi < Len(toPublish[w])
               THEN h'[w].pc = "publish" /\ h'[w].pi = h[w].pi + 1
               ELSE result'[w] = "ok"]_vars

\* C10 witness: the publish of the first intent failed, the second intent was
\* published all the same and the handler returned ok.
PublishFailureWitness ==
  \E w \in Workers :
    /\ result[w] = "ok"
    /\ "publish" \in failedAt[w]
    /\ Len(toPublish[w]) >= 2
    /\ ~BagIn(PublishCommand(toPublish[w][1]), published)
    /\ BagIn(PublishCommand(toPublish[w][2]), published)
    /\ tenders # {}

UniqueKey ==
  \A r1, r2 \in tenders :
    (r1.source_id = r2.source_id /\ r1.external_id = r2.external_id) => r1 = r2

\* C8 witness: with rows committed, an instance is about to upsert a key that
\* the open transaction of the other instance has upserted and not committed.
UniqueKeyWitness ==
  \E w \in Workers :
    /\ h[w].pc = "upsert"
    /\ client[w].tx = "open"
    /\ Locked(w, h[w].sourceId, h[w].items[h[w].ii].tender.external_id)
    /\ tenders # {}

\* A notification the handler skips: the object is not JSON, the key has the
\* prefix of no source, or the normalizer yields no item.
IsSkipped(key) ==
  \/ ~Bucket(key).json
  \/ detectSource(key) = null
  \/ /\ NormalizerDefined(detectSource(key))
     /\ normalize(detectSource(key), Bucket(key).raw) = << >>

\* C11: the step that skips a notification (object not JSON, key of no
\* source, no items) happens with no transaction open, writes nothing to the
\* store, queues no intent, raises nothing and leaves the handler at the next
\* notification of the event; and an invocation that returned without a
\* failure has committed the items of every notification that is not skipped,
\* also those after a skipped message or object.
SkippedHaveNoEffect ==
  /\ [](\A w \in Workers :
          (result[w] = "ok" /\ failedAt[w] = {} /\ raises = 0)
            => IsFailureFreeStore(event))
  /\ [][\A w \in Workers :
          (/\ h[w].pc = "fetch"
           /\ IsSkipped(event[h[w].mi].Records[h[w].ri])
           /\ h'[w] # h[w]
           /\ h'[w].pc # "rollback")
            => /\ UNCHANGED <<db, tenderSeq, toPublish, raises>>
               /\ client[w].tx = "idle"
               /\ client'[w].tx = "idle"
               /\ result'[w] # "raised"
               /\ LET pos == Seek(event, h[w].mi, h[w].ri + 1)
                  IN IF pos # <<0, 0>>
                     THEN /\ h'[w].pc = "fetch"
                          /\ <<h'[w].mi, h'[w].ri>> = pos
                     ELSE h'[w].pc \in {"publish", "idle"}]_vars

\* C11 witness: the handler returned after an event with a message that is
\* not JSON and three skipped objects before an object with items, whose
\* tender is committed and published.
SkippedWitness ==
  /\ event = AllSkips
  /\ result["w1"] = "ok"
  /\ failedAt["w1"] = {}
  /\ tenders # {}
  /\ published # EmptyBag

\* The keys of the notifications of an event.
EventKeys(ev) ==
  UNION {{ev[m].Records[i] : i \in 1..Len(ev[m].Records)} :
           m \in {n \in 1..Len(ev) : ev[n].json}}

\* C12 (as claimed): an invocation in which no awaited call failed does not
\* raise, and when it has returned, every object of the event under one of
\* the four source prefixes that holds records has tender rows of its source
\* committed.
SourceDispatchCovers ==
  \A w \in Workers :
    failedAt[w] = {} =>
      /\ result[w] # "raised"
      /\ result[w] = "ok" =>
           \A key \in EventKeys(event) :
             (detectSource(key) # null /\ Bucket(key).json
                /\ asArray(Bucket(key).raw) # << >>)
               => \E r \in tenders : r.source_id = SourcesTable(detectSource(key))

\* The raw records of the object under a key.
RawRecords(key) ==
  LET raw == Bucket(key).raw
  IN IF detectSource(key) = <<"etenders">>
     THEN (IF raw.t = "obj" /\ "data" \in DOMAIN raw.v THEN raw.v.data ELSE << >>)
     ELSE asArray(raw)

\* The portal's reference of a raw record: TenderID or enquiryNumber for
\* Eskom, tender_No for eTenders; null when the record lacks it.
PortalReference(source, rec) ==
  IF source = <<"etenders">> THEN Or(Get(rec, "tender_No"), null)
  ELSE Or(Or(Get(rec, "TenderID"), Get(rec, "enquiryNumber")), null)

\* C13 (as claimed): every committed tender row has the portal reference of
\* a raw record of its source in the event as its external id, so a record
\* without the reference has written no row.
NoReferenceNoRow ==
  \A r \in tenders :
    \E key \in EventKeys(event) :
      /\ Bucket(key).json
      /\ detectSource(key) # null
      /\ SourcesTable(detectSource(key)) = r.source_id
      /\ \E i \in 1..Len(RawRecords(key)) :
           /\ PortalReference(detectSource(key), RawRecords(key)[i]) # null
           /\ PortalReference(detectSource(key), RawRecords(key)[i]) = r.external_id

\* C14 (as claimed): two items of one object with the same hash have the same
\* value in every stored column, and an item with the hash of a stored row of
\* its source has the values of that row in every column but last_seen_at.
EqualHashEqualRow ==
  \A w \in Workers :
    \A i \in 1..Len(h[w].items) :
      /\ \A j \in 1..Len(h[w].items) :
           h[w].items[i].tender.hash = h[w].items[j].tender.hash
             => h[w].items[i].tender = h[w].items[j].tender
      /\ \A r \in tenders :
           (h[w].sourceId = r.source_id /\ h[w].items[i].tender.hash = r.hash)
             => Core(r) = h[w].items[i].tender

\* The intent queued last by a step of w that queued one.
Queued(w) == toPublish'[w][Len(toPublish'[w])]

\* The category, source name or "general" a tender's message is filed under.
CategoryOrSource(t, source) ==
  IF Truthy(t.category) THEN t.category
  ELSE IF Truthy(source) THEN source ELSE <<"general">>

\* Every message the topic accepted is the PublishCommand of a queued intent,
\* its attribute being the category of its body.
AttributeIsBodyCategory ==
  /\ [](\A m \in BagToSet(published) :
          m.MessageAttributes.category = m.Message.category)
  /\ [][published' # published =>
          \E w \in Workers :
            /\ h[w].pc = "publish"
            /\ published' = published
                 (+) SetToBag({PublishCommand(toPublish[w][h[w].pi])})]_vars

PreferencesOf(bag, uid) == [r \in {x \in DOMAIN bag : x.user_id = uid} |-> bag[r]]

SavedResponse ==
  ok("{\"message\":\"Preferences saved & SNS subscriptions created\"}")

\* C15 (as claimed, for the deliveries made while no request is in progress
\* and no call has failed): the topic delivers a message to an endpoint only
\* if the message's category is in the set that user saved last.
CategoryGating ==
  [][\A d \in delivered' \ delivered :
       (api.pc = "idle" /\ faults = 0) => d.category \in saved[d.Endpoint]]_vars

\* C16: when a save is answered 200, the user's rows are the categories of
\* the list, one row per element, and the invocation made one Subscribe call
\* per element, in order, each with the filter of that element.
PreferencesReplaced ==
  [][(response' # response /\ response' = SavedResponse) =>
       LET L == api.categories
       IN /\ PreferencesOf(user_preferences', api.userId) =
               BagOfSeq([i \in 1..Len(L) |->
                           [user_id |-> api.userId, tender_category |-> L[i]]])
          /\ subscribeCalls' =
               [i \in 1..Len(L) |-> SubscribeCommand(api.email, L[i])]]_vars

\* C16 witness: a save of one category was answered 200 for a user who had
\* saved two others before: the row of the new category is the only one.
PreferencesReplacedWitness ==
  /\ response = SavedResponse
  /\ saved[Ann] = {<<"civil">>}
  /\ user_preferences = SetToBag({[user_id |-> 1, tender_category |-> <<"civil">>]})
  /\ Cardinality(subscriptions) = 2

\* C17: a save whose body lacks the email or has categories that is no array
\* returns 400, and one for an email without user returns 404 (when the
\* lookup itself does not fail); an invocation that returns 400 or 404 has
\* deleted and inserted no preference row and made no Subscribe call.
RejectedChangeNothing ==
  [][(api.pc # "idle" /\ api'.pc = "idle" /\ response' # Raised
        /\ api.method = "POST" /\ api.body.json) =>
       LET email == Get(api.body.v, "email")
           valid == /\ Truthy(email)
                    /\ "categories" \in DOMAIN api.body.v
                    /\ api.body.v.categories.t = "arr"
       IN /\ ~valid => response'.statusCode = 400
          /\ (valid /\ email \notin {Ann} /\ faults' = faults)
               => response'.statusCode = 404
          /\ response'.statusCode \in {400, 404} =>
               /\ user_preferences' = api.atEntry
               /\ UNCHANGED subscriptions
               /\ subscribeCalls' = << >>]_vars

\* C17 witness: a save for an email without user was answered 404 while the
\* preferences and subscriptions of an earlier save are in place.
RejectedWitness ==
  /\ response = bad(404, "User not found")
  /\ user_preferences # EmptyBag
  /\ subscriptions # {}

\* Page q is started by the step: it is in process after it and was not before.
PageStarted(q) ==
  /\ f'.pc = "pages"
  /\ q \in DOMAIN f'.procs
  /\ ~(f.pc = "pages" /\ q \in DOMAIN f.procs)

\* C19: once a page request of an invocation was answered 404, the
\* invocation starts no page with a higher number and invokes no
\* continuation.
NotFoundTerminatesCrawl ==
  [][\A r \in requested :
       (r.response = "404" /\ r.inv = f.inv) =>
         /\ \A q \in 1..MAX_PAGES : PageStarted(q) => q <= r.page
         /\ invocations' = invocations \/ f.pc = "idle"]_vars

\* The results of the pages an invocation has tallied are those of its pages
\* before currentPage, each once, and totalSaved and failedPages are the
\* event's plus the saved and the failed among them.
TallyIsCurrent(ev) ==
  LET R == f.pageResults
      failed == SelectSeq(R, LAMBDA r : ~r.success)
  IN /\ Len(R) = f.currentPage - f.startPage
     /\ \A k \in 1..Len(R) : R[k].page = f.startPage + k - 1
     /\ f.totalSaved = ev.totalSaved + Len(SelectSeq(R, LAMBDA r : r.success))
     /\ f.failedPages = ev.failedPages \o [k \in 1..Len(failed) |-> failed[k].page]

\* The step of an invocation whose budget check found it out of time: no
\* page is started, the invocation asked for (which may fail) has startPage
\* equal to the first page not processed with the current totalSaved and
\* failedPages, and the continuation summary is returned.
HandsOver ==
  f.pc = "continue" =>
    /\ f' = FetcherIdle
    /\ invocations' \in
         {invocations,
          Append(invocations, [startPage |-> f.currentPage,
                               totalSaved |-> f.totalSaved,
                               failedPages |-> f.failedPages])}
    /\ returned' = Append(returned,
         [inv |-> f.inv, statusCode |-> 200,
          message |-> "Continuation invoked before timeout",
          lastPage |-> f.currentPage - 1, totalSaved |-> f.totalSaved,
          failedPages |-> f.failedPages, continuedFrom |-> f.currentPage])

\* The loop of an invocation ends in one of two ways: with the continuation,
\* or with every page up to MAX_PAGES processed.
EndsComplete ==
  (f.pc # "idle" /\ f'.pc = "idle" /\ f.pc # "continue") =>
    returned'[Len(returned')].lastPage = MAX_PAGES

\* C20 as stated: a page is started only while the elapsed time is below the
\* budget of 260 s; at the budget the invocation hands over to a continuation.
ContinuesAtBudget ==
  [][/\ \A q \in 1..MAX_PAGES :
          PageStarted(q) => ~BudgetReached(now' - f'.startTime)
     /\ HandsOver
     /\ EndsComplete]_vars

\* C20: a page is started only while the elapsed time is at most the budget
\* of 260 000 ms; an invocation that finds more than the budget elapsed
\* before a page starts no further page, invokes itself asynchronously with
\* startPage the first page not yet processed and the current totalSaved and
\* failedPages, and returns the continuation summary.
ContinuesBeyondBudget ==
  /\ [](f.pc = "continue" =>
          /\ now - f.startTime > MAX_RUNTIME_MS
          /\ f.currentPage <= MAX_PAGES
          /\ \E ev \in {FirstEvent} \cup
                       {[startPage |-> returned[k].continuedFrom,
                         totalSaved |-> returned[k].totalSaved,
                         failedPages |-> returned[k].failedPages] :
                          k \in 1..Len(returned)} :
               TallyIsCurrent(ev))
  /\ [][/\ \A q \in 1..MAX_PAGES :
             PageStarted(q) => now' - f'.startTime <= MAX_RUNTIME_MS
        /\ HandsOver
        /\ EndsComplete]_vars

\* C20 witness: the second page took so long that the invocation handed over
\* at page 3, with one page saved and one failed, and the continuation runs.
ContinuationWitness ==
  /\ Len(returned) = 1
  /\ returned[1].continuedFrom = 3
  /\ returned[1].totalSaved = 1
  /\ returned[1].failedPages = <<2>>
  /\ f.pc = "pages"
  /\ f.inv = 2
  /\ f.startPage = 3

\* The request the step has made, if any.
NewRequests == requested' \ requested

\* The fetch of the page of request n gave up on it: the request failed with
\* a transient condition, as every request for the page before it, and no
\* retry follows.
GaveUp(n) ==
  /\ n.response = "transient"
  /\ \A r \in requested :
       (r.inv = n.inv /\ r.page = n.page) => r.response = "transient"
  /\ ~(f'.pc = "pages" /\ n.page \in DOMAIN f'.procs
         /\ f'.procs[n.page].pc = "backoff")

\* The waits before the first, second and third retry (ms).
BackoffSchedule == <<5000, 10000, 20000>>

\* C21: a page fetch that fails with a transient condition is given up only
\* at the request that follows the third retry, and the wait before the
\* k-th retry is 5 s, 10 s, 20 s for k = 1, 2, 3.
RetrySchedule ==
  [][/\ \A n \in NewRequests : GaveUp(n) => n.attempt = 4
     /\ \A p \in 1..MAX_PAGES :
          (/\ f.pc = "pages" /\ p \in DOMAIN f.procs
           /\ f.procs[p].pc = "backoff"
           /\ f'.pc = "pages" /\ p \in DOMAIN f'.procs
           /\ f'.procs[p].pc = "get")
            => now' - now = BackoffSchedule[f.procs[p].attempt]]_vars

\* The results an invocation holds: of the page processes that are done, of
\* the await that has resolved, and those tallied.
ResultsHeld(g) ==
  {PageResult(q, g.procs[q]) : q \in {q \in DOMAIN g.procs : g.procs[q].pc = "done"}}
    \cup {g.results[k] : k \in DOMAIN g.results}
    \cup {g.pageResults[k] : k \in DOMAIN g.pageResults}

\* C22: a page request that fails with an error outside the transient set
\* ends the fetch of the page in the same step, with that error as the page's
\* result and no sleep, and the invocation makes no later request for it.
NonRetriableNotRetried ==
  /\ [](\A r \in requested : r.response = "unexpected" =>
          \A q \in requested :
            (q.inv = r.inv /\ q.page = r.page) => q.attempt <= r.attempt)
  /\ [][\A n \in NewRequests : n.response = "unexpected" =>
          /\ now' - now = n.ms
          /\ \/ [success |-> FALSE, page |-> n.page, detail |-> "unexpected"]
                  \in ResultsHeld(f')
             \/ /\ f'.pc = "idle"
                /\ \E k \in DOMAIN returned'[Len(returned')].failedPages :
                     returned'[Len(returned')].failedPages[k] = n.page]_vars

\* C22 witness: the second request for page 1, after a transient failure,
\* met an unexpected status; page 1 is tallied as failed and page 2 is under
\* way.
NonRetriableWitness ==
  /\ \E r \in requested :
       r.page = 1 /\ r.attempt = 2 /\ r.response = "unexpected"
  /\ f.failedPages = <<1>>
  /\ f.pc = "pages"
  /\ 2 \in DOMAIN f.procs

\* An object of the store is a raw page under the key
\* etenders/etenders-p{page, four digits}-{timestamp}.json with the metadata
\* {page, timestamp}.
IsPageObject(o, page) ==
  LET d == <<(page \div 1000) % 10, (page \div 100) % 10, (page \div 10) % 10,
             page % 10>>
  IN /\ page < 10000
     /\ o.Key = <<"etenders/", "etenders-p", d, "-", o.Metadata.timestamp, ".json">>
     /\ o.Metadata.page = page

\* The pages an invocation has tallied.
TalliedPages(g) == {g.pageResults[k].page : k \in DOMAIN g.pageResults}

\* C23: the result of a page is a success exactly if an object of the page
\* is in the store, totalSaved counts the tallied pages that have one, every
\* object has the key and metadata of its page, and no object exists for a
\* page whose request was answered 404 or never answered with data.
PerPagePersistence ==
  /\ \A r \in ResultsHeld(f) :
       r.success <=> \E o \in objects : IsPageObject(o, r.page)
  /\ \A o \in objects :
       /\ \E q \in 1..MAX_PAGES : IsPageObject(o, q)
       /\ \E r \in requested : r.page = o.Metadata.page /\ r.response = "200"
       /\ \A r \in requested : r.page = o.Metadata.page => r.response # "404"
  /\ f.pc # "idle" =>
       f.totalSaved =
         Cardinality({o \in objects : \/ o.Metadata.page < f.startPage
                                      \/ o.Metadata.page \in TalliedPages(f)})

\* C23 witness: page 1 is saved and counted, page 2 was answered 404 and is
\* listed as failed with no object, and page 3 is under way.
PerPagePersistenceWitness ==
  /\ f.totalSaved = 1
  /\ f.failedPages = <<2>>
  /\ \E o \in objects : IsPageObject(o, 1)
  /\ \E r \in requested : r.page = 2 /\ r.response = "404"
  /\ f.pc = "pages"
  /\ 3 \in DOMAIN f.procs

\* C24: whatever the sort and order parameters of a GET /tenders request,
\* absent ones included, the statement orders by closing_at, published_at
\* or id: by the sort parameter if it is one of the three, else by
\* closing_at; the direction is DESC exactly if order is desc in some
\* spelling of case, else ASC; and NULLS LAST is always there.
SortAllowList ==
  api.pc \in {"count", "rows"} =>
    LET sort == api.qp.sort
        order == api.qp.order
        allowed == {<<"closing_at">>, <<"published_at">>, <<"id">>}
    IN /\ api.dataSql.orderBy \in {"closing_at", "published_at", "id"}
       /\ sort \in allowed => <<api.dataSql.orderBy>> = sort
       /\ sort \notin allowed => api.dataSql.orderBy = "closing_at"
       /\ api.dataSql.direction =
            IF order \in {<<"desc">>, <<"DESC">>, <<"Desc">>} THEN "DESC" ELSE "ASC"
       /\ api.dataSql.nulls = "LAST"

\* C24 witness: a request with sort=title and order=Desc has its statement
\* ordered by closing_at, descending.
SortAllowListWitness ==
  /\ api.pc = "rows"
  /\ api.qp.sort = <<"title">>
  /\ api.qp.order = <<"Desc">>
  /\ api.dataSql.orderBy = "closing_at"
  /\ api.dataSql.direction = "DESC"

\* The integer a parameter value of the model starts with, if it starts with
\* one (after whitespace).
LeadingInteger ==
  [v \in {<<"-", "5">>, <<"0">>, <<"2">>, <<"7">>, <<"1", "0", "0">>,
          <<"1", "0", "1">>, <<"1", "2", "a", "b", "c">>, <<" ", "3">>,
          <<"2", ".", "9">>, <<"-", "1">>, <<"1">>, <<"5">>, <<"1", "x">>} |->
     CASE v = <<"-", "5">> -> 0 - 5
       [] v = <<"-", "1">> -> 0 - 1
       [] v = <<"0">> -> 0
       [] v \in {<<"1">>, <<"1", "x">>} -> 1
       [] v \in {<<"2">>, <<"2", ".", "9">>} -> 2
       [] v = <<" ", "3">> -> 3
       [] v = <<"5">> -> 5
       [] v = <<"7">> -> 7
       [] v = <<"1", "0", "0">> -> 100
       [] v = <<"1", "0", "1">> -> 101
       [] OTHER -> 12]

\* A parameter value is a number: digits after an optional sign, with an
\* optional fraction and whitespace around.
IsNumeric(v) ==
  v \in DOMAIN LeadingInteger /\ v \notin {<<"1", "2", "a", "b", "c">>, <<"1", "x">>}

\* The 200 response of GET /tenders echoes the limit and the offset used.
EchoesPaging ==
  (api.pc = "rows" /\ response'.statusCode = 200) =>
    response'.body =
      "{\"total\":" \o ToString(Cardinality(tenders))
        \o ",\"limit\":" \o ToString(api.dataSql.limit)
        \o ",\"offset\":" \o ToString(api.dataSql.offset)
        \o ",\"results\":[" \o IdsText(SelectTenders(api.dataSql)) \o "]}"

\* C25 as stated: the limit used is in 1..100, and 20 when the parameter is
\* absent or not a number; the offset used is at least 0, and 0 when the
\* parameter is absent or not a number; the response echoes both.
PagingDefaultsNonNumeric ==
  /\ [](api.pc \in {"count", "rows"} =>
          /\ api.dataSql.limit \in 1..100
          /\ api.dataSql.offset \in Nat
          /\ ~IsNumeric(api.qp.limit) => api.dataSql.limit = 20
          /\ ~IsNumeric(api.qp.offset) => api.dataSql.offset = 0)
  /\ [][EchoesPaging]_vars

\* C25: the limit used is in 1..100: 20 when the parameter is absent or
\* does not start with an integer, else that integer brought into 1..100;
\* the offset used is at least 0: 0 when the parameter is absent or does not
\* start with an integer, else that integer or 0 if it is negative; the 200
\* response echoes both.
PagingBounds ==
  /\ [](api.pc \in {"count", "rows"} =>
          LET l == api.qp.limit
              o == api.qp.offset
          IN /\ api.dataSql.limit \in 1..100
             /\ api.dataSql.offset \in Nat
             /\ api.dataSql.limit =
                  IF l \notin DOMAIN LeadingInteger THEN 20
                  ELSE IF LeadingInteger[l] < 1 THEN 1
                  ELSE IF LeadingInteger[l] > 100 THEN 100
                  ELSE LeadingInteger[l]
             /\ api.dataSql.offset =
                  IF o \notin DOMAIN LeadingInteger \/ LeadingInteger[o] < 0 THEN 0
                  ELSE LeadingInteger[o])
  /\ [][EchoesPaging]_vars

\* C25 witness: limit=101 and offset=-1 were answered with limit 100 and
\* offset 0.
PagingBoundsWitness ==
  /\ api.pc = "idle"
  /\ response =
       ok("{\"total\":3,\"limit\":100,\"offset\":0,\"results\":[{\"id\":1},{\"id\":2},{\"id\":3}]}")
  /\ apiQuota = MaxRequests - 1

\* C26: every invocation of the query API handler ends with a response that
\* carries the CORS headers, and a failure is a response with a 4xx or 5xx
\* status and a body {error: ...}: the handler never raises.
ResponsesWellFormed ==
  [][(api.pc # "idle" /\ api'.pc = "idle") =>
       /\ response'.headers =
            [ContentType |-> "application/json", AccessControlAllowOrigin |-> "*",
             AccessControlAllowHeaders |-> "Content-Type,Authorization"]
       /\ response'.statusCode \in {200} \cup 400..599
       /\ faults' > faults => response'.statusCode \in 400..599]_vars

\* C27  Scraper handler outcome: an invocation of a scraper never raises; it
\* returns 200 with the message "Scraping successful..." and a file key
\* under its own source prefix only after exactly one object was written
\* under that key, or it returns 500 with the error message, and then no
\* object was written by that invocation.
ScraperObject(i, source) ==
  [Bucket |-> BUCKET_NAME, Key |-> ScraperKey(source, i)]

ScraperOutcome ==
  \A i \in 1..Len(scraperReturned) :
    LET r == scraperReturned[i]
    IN /\ r.statusCode \in {200, 500}
       /\ r.statusCode = 200 =>
            \E source \in {"eskom", "sanral"} :
              /\ r.body.message = "Scraping successful and saved to S3"
              /\ r.body.file = <<BUCKET_NAME, "/">> \o ScraperKey(source, i)
              /\ CopiesIn(ScraperObject(i, source), scraped) = 1
       /\ r.statusCode = 500 =>
            /\ "error" \in DOMAIN r.body
            /\ \A source \in {"eskom", "sanral"} :
                 CopiesIn(ScraperObject(i, source), scraped) = 0

\* C28  Whitespace-squash invariant: every free-text field of every tender
\* a normalizer emits has no run of two or more whitespace characters and
\* no leading or trailing whitespace, and is null rather than the empty
\* string.
TextColumns ==
  {"title", "description", "category", "location", "buyer",
   "procurement_method", "status", "tender_type", "briefing_venue",
   "tender_box_address", "target_audience", "contract_type", "queries_to",
   "briefing_details"}

Squashed(v) ==
  /\ v # EmptyStr
  /\ Head(v) \notin WS
  /\ v[Len(v)] \notin WS
  /\ \A i \in 1..(Len(v) - 1) : ~(v[i] \in WS /\ v[i + 1] \in WS)

TextSquashed ==
  \A w \in Workers :
    \A k \in 1..Len(h[w].items) :
      \A col \in TextColumns \cap DOMAIN h[w].items[k].tender :
        LET v == h[w].items[k].tender[col]
        IN v = null \/ Squashed(v)

\* C29  Publishes never interleave with transactions: in every invocation
\* of the ingest worker a publish is issued only while no transaction is
\* open on the worker's connection, and once the invocation has issued a
\* publish it issues no BEGIN, statement, COMMIT or ROLLBACK any more: all
\* publishes come after the last COMMIT of the invocation.
PublishesOutsideTransactions ==
  \A w \in Workers :
    /\ h[w].pc = "publish" => client[w].held /\ client[w].tx = "idle"
    /\ attempts[w] > 0 => h[w].pc \in {"publish", "idle"}
    /\ attempts[w] > 0 /\ h[w].pc = "idle" => client[w] = Released

\* C29 witness: an invocation that committed the batches of two objects,
\* one of each source, is in its publish loop and has published once.
PublishesOutsideWitness ==
  \E w \in Workers :
    /\ h[w].pc = "publish"
    /\ attempts[w] = 1
    /\ \E i, j \in 1..Len(toPublish[w]) :
         /\ toPublish[w][i].source = <<"eskom">>
         /\ toPublish[w][j].source = <<"etenders">>
    /\ \A k \in 1..Len(toPublish[w]) :
         \E r \in tenders : r.id = toPublish[w][k].tenderId

\* The items the objects of the event hold.
IngestedItems ==
  UNION {UNION {LET key == event[m].Records[k]
                    items == normalize(detectSource(key), Bucket(key).raw)
                IN {items[n] : n \in 1..Len(items)} :
                  k \in 1..Len(event[m].Records)} :
           m \in 1..Len(event)}

\* The committed row r, its documents and its contacts are those of item it.
AllOf(r, it) ==
  /\ Core(r) = it.tender
  /\ RowsOf(documents, r.id) = DocumentRows(r.id, it)
  /\ RowsOf(contacts, r.id) = ContactRows(r.id, it)

\* C30  Latest commit wins under concurrency: when two worker instances
\* ingest items for the same (source_id, external_id) concurrently, in
\* every committed state the tender row, its documents and its contacts all
\* come from one and the same ingest item, and a COMMIT that changes the
\* tables leaves every tender its transaction wrote with the row and the
\* children of the item that transaction wrote last.
LatestCommitWins ==
  /\ [](\A r \in tenders : \E it \in IngestedItems : AllOf(r, it))
  /\ [][\A w \in Workers :
          (h[w].pc = "commit" /\ client[w].tx = "open" /\ tenders' # tenders) =>
            \A id \in DOMAIN client[w].wW :
              \E r \in tenders' :
                /\ r.id = id
                /\ Core(r) = client[w].wW[id].tender
                /\ RowsOf(documents', id) = DocumentRows(id, client[w].wW[id])
                /\ RowsOf(contacts', id) = ContactRows(id, client[w].wW[id])]_vars

\* C30 witness: while the other instance is still at work on rows of its
\* own, an instance is about to COMMIT a transaction that wrote a committed
\* tender with an item other than the one the tender and its children are
\* of now.
LatestCommitWitness ==
  \E w \in Workers :
    /\ h[w].pc = "commit"
    /\ client[w].tx = "open"
    /\ \A v \in Workers \ {w} : h[v].pc # "idle" /\ rowsDone[v] > 0
    /\ \E id \in DOMAIN client[w].wW :
         \E r \in tenders :
           /\ r.id = id
           /\ ~AllOf(r, client[w].wW[id])
           /\ \E it \in IngestedItems : AllOf(r, it)

\* The page processes of the current await that are not done.
InFlight == {q \in DOMAIN f.procs : f.procs[q].pc # "done"}

\* The await of a concurrent batch resolves in this step.
BatchResolves ==
  /\ f.pc = "pages"
  /\ f.concurrent
  /\ \/ f'.pc # "pages"
     \/ Len(f'.pageResults) > Len(f.pageResults)

\* C31  Batch mode isolation: in concurrent mode at most three page fetches
\* are in flight at a time, a page that fails leaves the other pages of its
\* batch on their course until each is done, and the batch yields exactly
\* one result per page of the batch, in page order, each with its page
\* number and a success flag that tells whether the page's object was saved.
BatchIsolation ==
  /\ [](Cardinality(InFlight) <= 3)
  /\ [][BatchResolves =>
          /\ Cardinality(InFlight) = 1
          /\ IF f'.pc = "idle"
             THEN LET r == returned'[Len(returned')]
                  IN /\ r.totalSaved + Len(r.failedPages)
                          = f.totalSaved + Len(f.failedPages)
                              + Cardinality(DOMAIN f.procs)
                     /\ \A q \in DOMAIN f.procs :
                          (\E k \in 1..Len(r.failedPages) : r.failedPages[k] = q)
                            <=> ~(\E o \in objects' : o.Metadata.page = q)
             ELSE LET n == Cardinality(DOMAIN f.procs)
                      base == Len(f.pageResults)
                  IN /\ Len(f'.pageResults) = base + n
                     /\ SubSeq(f'.pageResults, 1, base) = f.pageResults
                     /\ \A k \in 1..n :
                          LET r == f'.pageResults[base + k]
                          IN /\ r.page = f.currentPage + k - 1
                             /\ r.page \in DOMAIN f.procs
                             /\ r.success \in BOOLEAN
                             /\ r.success
                                  <=> \E o \in objects' : o.Metadata.page = r.page]_vars

\* C31 witness: a concurrent batch of three pages is in flight, one of its
\* pages has failed, another has saved its object after a request of its own
\* and the failed one, and the third has made no request yet.
BatchIsolationWitness ==
  /\ f.pc = "pages"
  /\ f.concurrent
  /\ Cardinality(DOMAIN f.procs) = 3
  /\ InFlight # {}
  /\ \E p, q \in DOMAIN f.procs :
       /\ f.procs[p].pc = "done" /\ ~f.procs[p].success
       /\ f.procs[q].pc = "done" /\ f.procs[q].success
       /\ \A r \in requested : r.page \in {p, q}
       /\ \E o \in objects, r \in requested :
            /\ o.Metadata.page = q
            /\ r.page = p /\ r.response # "200"
            /\ o.Metadata.timestamp >= 2 * r.ms

\* C32  Password and pool are memoized per instance: once an instance has
\* its pool it keeps it; an invocation that finds the pool goes on to
\* connect with no password fetch, hence with no failure there; an
\* invocation that finds none fetches the password, and has the pool
\* if the fetch succeeds and raises with the pool still unset if it fails.
\* This holds for the ingest worker and for the query API.
PoolMemoized ==
  [][/\ \A w \in Workers :
          /\ pool[w] => pool'[w]
          /\ (h[w].pc = "getPool" /\ h'[w] # h[w]) =>
               IF pool[w]
               THEN h'[w].pc = "connect" /\ faults' = faults
               ELSE \/ pool'[w] /\ h'[w].pc = "connect" /\ faults' = faults
                    \/ /\ ~pool'[w] /\ h'[w].pc = "idle" /\ result'[w] = "raised"
                       /\ faults' = faults + 1
     /\ apiPool => apiPool'
     /\ (api.pc = "pool" /\ api' # api) =>
          IF apiPool
          THEN api'.pc # "idle" /\ faults' = faults
          ELSE \/ apiPool' /\ api'.pc # "idle" /\ faults' = faults
               \/ /\ ~apiPool' /\ api'.pc = "idle" /\ response' = Raised
                  /\ faults' = faults + 1]_vars

\* C32 witness: the ingest instance and the API instance are each in their
\* second invocation, past the pool step, with the pool of the first
\* invocation, in which nothing failed.
PoolMemoizedWitness ==
  /\ faults = 0
  /\ h["w1"].pc = "connect" /\ pool["w1"]
  /\ quota["w1"] = MaxDeliveries - 2
  /\ tenders # {}
  /\ api.pc = "connect" /\ apiPool
  /\ apiQuota = MaxRequests - 2

\* An invocation raised for a failed password fetch, and the next one of the
\* same instance has fetched it.
PoolRefetchedWitness ==
  /\ faults = 1
  /\ raises = 1
  /\ failedAt["w1"] = {}
  /\ h["w1"].pc = "connect" /\ pool["w1"]
  /\ tenders = {}

\* C33  Connection discipline: in the ingest worker and in the query API an
\* invocation holds the connection it acquired from the connect step on
\* and has released it, once, when it ends, on every path; in the ingest
\* worker the release comes with the COMMIT or the ROLLBACK attempt of the
\* transaction, or with no transaction left open, and BEGIN is issued only
\* with no transaction open.
ConnectionDiscipline ==
  /\ [](\A w \in Workers :
          /\ h[w].pc = "idle" => client[w] = Released
          /\ h[w].pc \in {"getPool", "connect"} => ~client[w].held
          /\ h[w].pc \notin {"idle", "getPool", "connect"} => client[w].held
          /\ h[w].pc = "begin" => client[w].tx = "idle")
  /\ [](/\ apiHeld \in {0, 1}
        /\ apiHeld = 1 <=> api.pc \notin {"idle", "pool", "connect"})
  /\ [][\A w \in Workers :
          (client[w].held /\ ~client'[w].held) =>
            /\ h'[w].pc = "idle"
            /\ h[w].pc \in {"commit", "rollback"} \/ client[w].tx = "idle"]_vars

\* C33 witness: the ingest invocation raised after a statement of an open
\* transaction failed, the API invocation returned early with a 400, and
\* neither holds a connection.
ConnectionDisciplineWitness ==
  /\ result["w1"] = "raised"
  /\ failedAt["w1"] \cap RowStatements # {}
  /\ client["w1"] = Released
  /\ api.pc = "idle"
  /\ response.statusCode = 400
  /\ apiHeld = 0

\* The number of times page p stands in the list of failed pages.
TimesFailed(failedPages, p) ==
  Cardinality({k \in 1..Len(failedPages) : failedPages[k] = p})

ObjectsOfPage(p) == {o \in objects : o.Metadata.page = p}

\* The chain has ended with "Processing complete".
CrawlComplete ==
  /\ returned # << >>
  /\ returned[Len(returned)].message = "Processing complete"

\* C34  Exactly-once page coverage: across the first invocation and its
\* continuations a page process starts only for a page no request was made
\* for, all requests for a page come from one invocation, the pages below
\* currentPage have all been processed, no page has two objects, and when
\* the chain ends with "Processing complete" every page in 1..MAX_PAGES was
\* requested and is accounted for exactly once, by its object or in
\* failedPages; in sequential and in concurrent mode.
ExactlyOnceCoverage ==
  /\ \A p \in DOMAIN f.procs :
       f.procs[p] = PageStart => ~(\E r \in requested : r.page = p)
  /\ \A r1, r2 \in requested : r1.page = r2.page => r1.inv = r2.inv
  /\ \A r \in requested : r.page \in 1..MAX_PAGES
  /\ f.pc # "idle" =>
       \A p \in 1..(f.currentPage - 1) : \E r \in requested : r.page = p
  /\ \A p \in 1..MAX_PAGES : Cardinality(ObjectsOfPage(p)) <= 1
  /\ CrawlComplete =>
       LET last == returned[Len(returned)]
       IN \A p \in 1..MAX_PAGES :
            /\ \E r \in requested : r.page = p
            /\ Cardinality(ObjectsOfPage(p)) + TimesFailed(last.failedPages, p) = 1

\* C34 witness: in concurrent mode the crawl was handed over and the
\* continuation ended it with "Processing complete".
ExactlyOnceWitness ==
  /\ USE_CONCURRENT
  /\ Len(returned) >= 2
  /\ CrawlComplete
  /\ \E r \in requested : r.inv = 2

\* The same in sequential mode.
ExactlyOnceSequentialWitness ==
  /\ ~USE_CONCURRENT
  /\ Len(returned) >= 2
  /\ CrawlComplete
  /\ \E r \in requested : r.inv = 2

\* No invocation runs and none is pending, after at least one has returned.
ChainAtRest ==
  /\ f.pc = "idle"
  /\ invocations = << >>
  /\ returned # << >>

\* The last invocation handed over and its self-invocation failed.
HandOverFailed ==
  /\ ChainAtRest
  /\ returned[Len(returned)].message = "Continuation invoked before timeout"

\* C35 (as claimed): the chain of invocations ends with an invocation that
\* returns "Processing complete".
ChainEndsComplete == ChainAtRest => CrawlComplete

\* C35 (amended): within an invocation currentPage never decreases and is
\* beyond every page tallied at the end of each loop iteration; pages are
\* processed and the crawl handed over only at currentPage <= MAX_PAGES, the
\* hand-over only after at least one page; and the chain comes to rest, with
\* "Processing complete" or, if a hand-over's self-invocation failed, with
\* that hand-over's "Continuation invoked before timeout".
CrawlTerminates ==
  /\ [][(f.pc # "idle" /\ f'.pc # "idle") =>
          /\ f'.inv = f.inv
          /\ f'.currentPage >= f.currentPage]_vars
  /\ [][Len(f'.pageResults) > Len(f.pageResults) =>
          \A k \in 1..Len(f'.pageResults) :
            f'.pageResults[k].page < f'.currentPage]_vars
  /\ [](f.pc = "pages" =>
          /\ f.currentPage <= MAX_PAGES
          /\ f.currentPage \in DOMAIN f.procs)
  /\ [](f.pc = "continue" =>
          /\ f.currentPage > f.startPage
          /\ f.currentPage <= MAX_PAGES)
  /\ <>[](ChainAtRest /\ (CrawlComplete \/ HandOverFailed))

\* C35 witness: the first invocation handed over beyond its first page,
\* and the continuation ended the chain with "Processing complete".
CrawlTerminatesWitness ==
  /\ ChainAtRest
  /\ CrawlComplete
  /\ Len(returned) = 2
  /\ returned[1].continuedFrom > 1
  /\ returned[2].lastPage = MAX_PAGES

\* The tallies account for the pages below `next`: as many as counted, the
\* saved ones having an object and the failed ones none, each failed page
\* listed once.
Accounts(totalSaved, failedPages, next) ==
  /\ totalSaved + Len(failedPages) = next - 1
  /\ \A p \in 1..(next - 1) :
       Cardinality(ObjectsOfPage(p)) + TimesFailed(failedPages, p) = 1
  /\ totalSaved = Cardinality({p \in 1..(next - 1) : ObjectsOfPage(p) # {}})
  /\ \A k \in 1..Len(failedPages) : failedPages[k] \in 1..(next - 1)

\* The fetcher is at a loop boundary: about to start the pages of an
\* iteration, or about to hand over.
LoopBoundary ==
  \/ f.pc = "continue"
  \/ f.pc = "pages" /\ \A p \in DOMAIN f.procs : f.procs[p] = PageStart

\* C36  Page accounting invariant: at every loop boundary, in every payload
\* handed over and in every summary returned, totalSaved plus the length
\* of failedPages is the number of pages processed so far in the chain (the
\* chain starts at page 1 with 0 and no failed page); every processed page
\* is counted once, in totalSaved if its object was saved and in
\* failedPages if not, and no saved page is in failedPages.
PageAccounting ==
  /\ LoopBoundary => Accounts(f.totalSaved, f.failedPages, f.currentPage)
  /\ \A k \in 1..Len(invocations) :
       invocations[k].startPage # 0 =>
         Accounts(invocations[k].totalSaved, invocations[k].failedPages,
                  invocations[k].startPage)
  /\ f.pc = "idle" /\ returned # << >> =>
       LET r == returned[Len(returned)]
       IN Accounts(r.totalSaved, r.failedPages, r.lastPage + 1)

\* C36 witness: a continuation is at a loop boundary past its first page
\* with pages saved and pages failed, before and after the hand-over.
PageAccountingWitness ==
  /\ LoopBoundary
  /\ f.inv = 2
  /\ f.currentPage > f.startPage
  /\ f.totalSaved >= 2
  /\ Len(f.failedPages) >= 1
  /\ \E k \in 1..Len(f.failedPages) : f.failedPages[k] < f.startPage

\* C37  A failed hand-over is silent: the hand-over returns statusCode 200
\* "Continuation invoked before timeout" with the tallies and the page to
\* continue from whether its self-invocation succeeded or not; if it failed,
\* nothing runs any more, and the pages from that page to MAX_PAGES were
\* never requested, have no object and are not in failedPages.
SilentHandOver ==
  /\ [][f.pc = "continue" /\ f' # f =>
          /\ f'.pc = "idle"
          /\ returned' = Append(returned,
               [inv |-> f.inv, statusCode |-> 200,
                message |-> "Continuation invoked before timeout",
                lastPage |-> f.currentPage - 1, totalSaved |-> f.totalSaved,
                failedPages |-> f.failedPages, continuedFrom |-> f.currentPage])
          /\ \/ invocations' = invocations
             \/ invocations' = Append(invocations, ContinuationPayload(f))]_vars
  /\ [][HandOverFailed => UNCHANGED fetcherVars]_vars
  /\ [](HandOverFailed =>
          LET r == returned[Len(returned)]
          IN /\ r.continuedFrom <= MAX_PAGES
             /\ r.totalSaved + Len(r.failedPages) = r.continuedFrom - 1
             /\ \A p \in r.continuedFrom..MAX_PAGES :
                  /\ ~(\E q \in requested : q.page = p)
                  /\ ObjectsOfPage(p) = {}
                  /\ TimesFailed(r.failedPages, p) = 0)

\* C37 witness: the first invocation saved pages, its hand-over failed, and
\* the chain is at rest with pages left.
SilentHandOverWitness ==
  /\ HandOverFailed
  /\ Len(returned) = 1
  /\ returned[1].statusCode = 200
  /\ returned[1].totalSaved >= 1
  /\ returned[1].continuedFrom <= MAX_PAGES

\* Page p met an error that ends its process: a 404, a non-retriable error,
\* a last attempt that failed, or a store that failed after the data came.
PageErred(p) ==
  \/ \E r \in requested :
       /\ r.page = p
       /\ \/ r.response \in {"404", "unexpected"}
          \/ r.response \in {"429", "transient"} /\ r.attempt = maxRetries
  \/ (\E r \in requested : r.page = p /\ r.response = "200")
       /\ ObjectsOfPage(p) = {}

\* C38  The fetcher handler absorbs page errors: no invocation raises or
\* returns 500; at every loop boundary and in every summary the pages
\* processed that met an error (404, non-retriable error, retries exhausted,
\* store failed) are exactly the pages of failedPages; after the tally of a
\* failed page the crawl goes on beyond it (next pages, hand-over or
\* completion); and no request is ever made for a page of failedPages.
PageErrorsAbsorbed ==
  /\ [](\A k \in 1..Len(returned) : returned[k].statusCode = 200)
  /\ [](LoopBoundary =>
          \A p \in 1..(f.currentPage - 1) :
            PageErred(p) <=> TimesFailed(f.failedPages, p) = 1)
  /\ [](CrawlComplete =>
          \A p \in 1..MAX_PAGES :
            PageErred(p) <=> TimesFailed(returned[Len(returned)].failedPages, p) = 1)
  /\ [][Len(f'.failedPages) > Len(f.failedPages) =>
          /\ f'.pc \in {"pages", "continue"}
          /\ \A k \in 1..Len(f'.failedPages) : f'.failedPages[k] < f'.currentPage
          /\ f'.pc = "pages" => \A p \in DOMAIN f'.procs : f'.procs[p] = PageStart]_vars
  /\ [][\A r \in requested' \ requested :
          /\ TimesFailed(f.failedPages, r.page) = 0
          /\ \A k \in 1..Len(invocations) :
               TimesFailed(invocations[k].failedPages, r.page) = 0]_vars

\* C38 witness: page 1 was not found, page 2 met a non-retriable error, the
\* store of page 3 failed, and the crawl ended with "Processing complete"
\* after it saved page 4.
PageErrorsAbsorbedWitness ==
  /\ CrawlComplete
  /\ returned[Len(returned)].failedPages = <<1, 2, 3>>
  /\ \E r \in requested : r.page = 1 /\ r.response = "404"
  /\ \E r \in requested : r.page = 2 /\ r.response = "unexpected"
  /\ \E r \in requested : r.page = 3 /\ r.response = "200"
  /\ ObjectsOfPage(4) # {}


\* The subscriptions a message of attribute a is delivered to.
Matching(a) == {y \in subscriptions : y.category = a}

\* A category as a message carries it: trimmed and in lower case.
Normal(c) == toLowerCase(Trim(c))

\* C39: the filter of a subscription holds the saved category as submitted,
\* the attribute of a message is the trimmed, lowercased category of its
\* tender (else source name, else "general"); so a subscription receives a
\* message exactly when its saved category equals that value, and one saved
\* with upper case or with blanks around receives nothing.
FilterVersusAttribute ==
  /\ [][\A y \in subscriptions' \ subscriptions :
          /\ api.pc = "subscribe"
          /\ y.Endpoint = api.email
          /\ y.category = api.categories[api.i]]_vars
  /\ [][\A w \in Workers :
          Len(toPublish'[w]) = Len(toPublish[w]) + 1 =>
            Queued(w).category =
              Normal(CategoryOrSource(h[w].items[h[w].ii].tender,
                                      h[w].source))]_vars
  /\ [](\A m \in BagToSet(published) :
          m.MessageAttributes.category = Normal(m.Message.category))
  /\ [][delivered' # delivered =>
          \E m \in BagToSet(published) :
            /\ Matching(m.MessageAttributes.category) # {}
            /\ delivered' \ delivered \subseteq
                 {[Endpoint |-> y.Endpoint, category |-> y.category] :
                    y \in Matching(m.MessageAttributes.category)}
            /\ \A y \in Matching(m.MessageAttributes.category) :
                 [Endpoint |-> y.Endpoint, category |-> y.category]
                   \in delivered']_vars
  /\ [](\A y \in subscriptions :
          y.category # Normal(y.category) =>
            [Endpoint |-> y.Endpoint, category |-> y.category]
              \notin delivered)

\* C39 witness: the user has a subscription for the category in upper case
\* and one for it as the messages carry it; the message of a tender whose
\* category has blanks and upper case was published, and the topic delivered
\* it for the second subscription only.
FilterVersusAttributeWitness ==
  /\ \E m \in BagToSet(published) :
       /\ m.Message.title = <<"C-1">>
       /\ m.MessageAttributes.category = <<"it">>
  /\ SubscribeCommand(Ann, <<"IT">>) \in subscriptions
  /\ SubscribeCommand(Ann, <<"it">>) \in subscriptions
  /\ delivered = {[Endpoint |-> Ann, category |-> <<"it">>]}


\* The rows of user uid for the first n elements of the list L.
PrefixRows(uid, L, n) ==
  BagOfSeq([k \in 1..n |-> [user_id |-> uid, tender_category |-> L[k]]])

\* C40: the save runs without a transaction: when the INSERT or the Subscribe
\* of element i fails, the handler returns 500, the rows of the user are
\* those of the elements inserted before (the first i - 1, or the first i
\* when the Subscribe failed), whatever the user had before, and the
\* invocation has created the subscriptions of the first i - 1 elements.
SaveNotAtomic ==
  [][(api.pc \in {"insertPref", "subscribe"} /\ faults' # faults) =>
       LET L == api.categories
           n == IF api.pc = "insertPref" THEN api.i - 1 ELSE api.i
       IN /\ api'.pc = "idle"
          /\ response' = bad(500, "Internal server error")
          /\ PreferencesOf(user_preferences', api.userId) =
               PrefixRows(api.userId, L, n)
          /\ subscribeCalls' =
               [k \in 1..n |-> SubscribeCommand(api.email, L[k])]
          /\ subscriptions' = subscriptions
          /\ \A k \in 1..(api.i - 1) :
               SubscribeCommand(api.email, L[k]) \in subscriptions']_vars

\* C40 witness: the user had saved civil; a later save of a list that begins
\* with it failed at its second INSERT: the call returned 500, the user's
\* only row is it, and the subscription of it was created.
SaveNotAtomicWitness ==
  /\ response = bad(500, "Internal server error")
  /\ saved[Ann] = {<<"civil">>}
  /\ user_preferences =
       SetToBag({[user_id |-> 1, tender_category |-> <<"it">>]})
  /\ subscribeCalls = <<SubscribeCommand(Ann, <<"it">>)>>
  /\ SubscribeCommand(Ann, <<"it">>) \in subscriptions

====
